---- MODULE Spec2Model ----
(***************************************************************************)
(* Model of the projection, suggestion and simulation-history services of *)
(* ANKATECH_BACKEND.                                                       *)
(*                                                                         *)
(* Money is counted in cents (integers).  The running value of the         *)
(* simulator is a JavaScript double in the source; here it is an exact     *)
(* rational n / p, kept as two arbitrary-precision integers, so that the   *)
(* place where the source rounds (Math.round(x * 100) / 100) is visible.   *)
(* A Date is a day number of a calendar whose months all have DaysPerMonth *)
(* days; `new Date()` reads the variable now.                              *)
(***************************************************************************)
EXTENDS Integers, Sequences, FiniteSets, TLC

VARIABLES now,        \* the wall clock read by `new Date()`
          simArgs,    \* arguments of the direct simulateWealthCurve calls
          simResult,  \* ProjectionPoint[] returned by the latest call
          simPrev,    \* ProjectionPoint[] returned by the call before it
          db,         \* the persisted client record (wallet, events, goals)
          response,   \* reply of the latest request handled
          simulations, \* rows of the Simulation table, in insertion order
          saved,      \* by id, the projection each stored simulation was saved from
          cache,      \* CacheService.cache: Map from key to {data, expires}
          tagIndex,   \* CacheService.tags: Map from tag to its Set of keys
          inflight,   \* by request, the position of a handler suspended at an await
          written     \* by key, the latest set of the key not yet deleted or cleared

vars == <<now, simArgs, simResult, simPrev, db, response, simulations, saved,
          cache, tagIndex, inflight, written>>

-----------------------------------------------------------------------------
(* Bounds of the model *)

Horizon == 2        \* simulated years end at EndYearDefault, start Horizon-1 before
MaxEvents == 1      \* events handed to one simulation

(* Program constants *)

EndYearDefault == 2060
MonthsPerYear == 12
LastMonth0 == 11
LastDay == 31
DaysPerMonth == LastDay   \* every month of the model's calendar has 31 days

None == "none"       \* a missing string (null frequency)
Null == <<>>          \* a missing object
NoDate == -1

FirstYear == EndYearDefault - Horizon + 1
Years == FirstYear..EndYearDefault

-----------------------------------------------------------------------------
(* Exact integer arithmetic on digit sequences.  A number is a sequence of  *)
(* base-Base digits, least significant first; every digit is in 0..Base-1   *)
(* except the last, which carries the sign.                                 *)

Base == 100 * 100

\* F applied to the value of e: e is computed once, however often F uses it
Let(e, F(_)) == CHOOSE r \in {F(v) : v \in {e}} : TRUE

\* Op folded over lo .. hi-1 in ascending order; the range is evaluated in
\* two halves so that long loops stay shallow
RECURSIVE FoldRange(_, _, _, _)
FoldRange(Op(_, _), st, lo, hi) ==
  IF lo >= hi THEN st
  ELSE IF hi = lo + 1 THEN Op(st, lo)
  ELSE Let(FoldRange(Op, st, lo, (lo + hi) \div 2),
           LAMBDA half : FoldRange(Op, half, (lo + hi) \div 2, hi))

CarryStep(s, st, i) ==
  [digits |-> Append(st.digits, (s[i] + st.c) % Base), c |-> (s[i] + st.c) \div Base]

\* the number with the (unnormalised) digits s
BigCarry(s) ==
  Let(s, LAMBDA d :
    Let(FoldRange(LAMBDA st, i : CarryStep(d, st, i),
                  [digits |-> <<>>, c |-> 0], 1, Len(d) + 1),
        LAMBDA r : IF r.c = 0 THEN r.digits ELSE Append(r.digits, r.c)))

BigZero == <<>>
BigOne == <<1>>
BigDigit(a, i) == IF i <= Len(a) THEN a[i] ELSE 0
BigLen(a, b) == IF Len(a) > Len(b) THEN Len(a) ELSE Len(b)

BigAdd(a, b) ==
  Let(<<a, b>>, LAMBDA x :
    BigCarry([i \in 1..BigLen(x[1], x[2]) |-> BigDigit(x[1], i) + BigDigit(x[2], i)]))
BigSub(a, b) ==
  Let(<<a, b>>, LAMBDA x :
    BigCarry([i \in 1..BigLen(x[1], x[2]) |-> BigDigit(x[1], i) - BigDigit(x[2], i)]))

\* a * m for a machine integer m with |m| < Base
BigScale(a, m) == Let(<<a, m>>, LAMBDA x : BigCarry([i \in 1..Len(x[1]) |-> x[1][i] * x[2]]))

\* a * m for any machine integer m
RECURSIVE BigMul(_, _)
BigMul(a, m) ==
  Let(<<a, m>>, LAMBDA x :
    IF x[2] > -Base /\ x[2] < Base THEN BigScale(x[1], x[2])
    ELSE BigAdd(BigScale(x[1], x[2] % Base), <<0>> \o BigMul(x[1], x[2] \div Base)))

BigNeg(a) == Let(a, LAMBDA x : Len(x) > 0 /\ x[Len(x)] < 0)
BigGeq(a, b) == ~BigNeg(BigSub(a, b))

-----------------------------------------------------------------------------
(* Dates *)

\* new Date(year, month0, day): local midnight of that day
Date(year, month0, day) == (year * MonthsPerYear + month0) * DaysPerMonth + (day - 1)
getFullYear(d) == d \div (MonthsPerYear * DaysPerMonth)
getMonth(d) == (d \div DaysPerMonth) % MonthsPerYear

\* new Date(2060, 11, 31)
HorizonEnd == Date(EndYearDefault, LastMonth0, LastDay)

-----------------------------------------------------------------------------
(* ProjectionService.simulateWealthCurve *)

\* annualRate = num / den; 1 + annualRate / 12 = FNum / FDen
FNum(rate) == MonthsPerYear * rate.den + rate.num
FDen(rate) == MonthsPerYear * rate.den

\* the running value, in cents: q + r / p with 0 <= r < p
Exact(cents) == [q |-> cents, r |-> BigZero, p |-> BigOne]

\* Round2, if the value were truncated (Math.floor) instead of rounded
Round2Floor(cur) == cur.q

\* Math.round(currentValue * 100) / 100, in cents: floor(value + 1/2)
Round2(cur) ==
  Let(cur, LAMBDA x : x.q + (IF BigGeq(BigScale(x.r, 2), x.p) THEN 1 ELSE 0))

\* currentValue * (1 + monthlyRate)
Grow(cur, rate) ==
  Let([v |-> cur, fn |-> FNum(rate), fd |-> FDen(rate)], LAMBDA x :
    Let([lo |-> (x.v.q % x.fd) * x.fn, p2 |-> BigScale(x.v.p, x.fd)], LAMBDA y :
      Let(BigAdd(BigScale(x.v.p, y.lo % x.fd), BigScale(x.v.r, x.fn)), LAMBDA num :
        Let(IF BigGeq(num, BigScale(y.p2, 2)) THEN 2
            ELSE IF BigGeq(num, y.p2) THEN 1 ELSE 0, LAMBDA c :
          [q |-> (x.v.q \div x.fd) * x.fn + (y.lo \div x.fd) + c,
           r |-> BigSub(num, BigScale(y.p2, c)),
           p |-> y.p2]))))

RECURSIVE SumValues(_, _)
SumValues(evs, i) == IF i > Len(evs) THEN 0 ELSE evs[i].value + SumValues(evs, i + 1)

shouldApplyEvent(event, currentDate, clock) ==
  LET eventStartDate == IF event.startDate = NoDate THEN clock ELSE event.startDate
      eventEndDate == IF event.endDate = NoDate THEN HorizonEnd ELSE event.endDate
  IN  IF currentDate < eventStartDate \/ currentDate > eventEndDate
      THEN FALSE
      ELSE CASE event.frequency = "once" -> currentDate = eventStartDate
             [] event.frequency = "monthly" -> TRUE
             [] event.frequency = "yearly" ->
                  /\ getMonth(currentDate) = getMonth(eventStartDate)
                  /\ getFullYear(currentDate) >= getFullYear(eventStartDate)
             [] OTHER -> currentDate = eventStartDate

\* the events.forEach of one month: the events that fire, in input order
MonthEvents(events, currentDate, clock) ==
  SelectSeq(events, LAMBDA e : shouldApplyEvent(e, currentDate, clock))

\* MonthStep, if the rounded value were written back to currentValue
MonthStepRounded(cur, rate, monthEvents) ==
  Let(Grow(cur, rate), LAMBDA grown :
    Exact(Round2([grown EXCEPT !.q = @ + SumValues(monthEvents, 1)])))

\* one month of the loop: growth first, then the month's events
MonthStep(cur, rate, monthEvents) ==
  Let(Grow(cur, rate), LAMBDA grown : [grown EXCEPT !.q = @ + SumValues(monthEvents, 1)])

\* LoopMonths, if the outer loop stopped before endYear (year < endYear)
LoopMonthsExclusive(startYear, endYear) ==
  IF startYear >= endYear THEN 0 ELSE MonthsPerYear * (endYear - startYear)

\* number of iterations of the two nested loops
LoopMonths(startYear, endYear) ==
  IF startYear > endYear THEN 0 ELSE MonthsPerYear * (endYear - startYear + 1)

\* one iteration of the inner loop: month i (counted from 0) of the horizon
SimMonth(st, events, rate, startYear, i, clock) ==
  Let([year |-> startYear + (i \div MonthsPerYear), month |-> (i % MonthsPerYear) + 1],
      LAMBDA d :
    Let(MonthEvents(events, Date(d.year, d.month - 1, 1), clock), LAMBDA monthEvents :
      Let(MonthStep(st.cur, rate, monthEvents), LAMBDA next :
        [points |-> Append(st.points,
                           [year |-> d.year, month |-> d.month,
                            projectedValue |-> Round2(next), events |-> monthEvents]),
         cur |-> next])))

simulateWealthCurve(initialValue, events, annualRate, startYear, endYear, clock) ==
  Let([events |-> events, annualRate |-> annualRate, startYear |-> startYear, clock |-> clock],
      LAMBDA a :
    FoldRange(LAMBDA st, i : SimMonth(st, a.events, a.annualRate, a.startYear, i, a.clock),
              [points |-> <<>>, cur |-> Exact(initialValue)],
              0, LoopMonths(a.startYear, endYear)).points)

-----------------------------------------------------------------------------
(* Inputs *)

Rates == {[num |-> 0, den |-> 1], [num |-> 1, den |-> 25], [num |-> 1, den |-> 1]}
DefaultRate == [num |-> 1, den |-> 25]    \* 0.04

InitialValues == {1000000, 250}
Deposit == 50000
Withdrawal == -1000000
Frequencies == {"once", "monthly", "yearly", None}
StartDates == {NoDate, Date(FirstYear, 0, 1), Date(FirstYear, 2, 15)}
EndDates == {NoDate, Date(FirstYear, 8, 15)}
Clock == {Date(FirstYear, 1, 1), Date(FirstYear, 6, 20)}

ProjectionEvents ==
  [type : {"Aporte"}, value : {Deposit}, frequency : Frequencies,
   startDate : StartDates, endDate : EndDates]
  \cup {[type |-> "Retirada", value |-> Withdrawal, frequency |-> "monthly",
         startDate |-> Date(FirstYear, 0, 1), endDate |-> NoDate]}

RECURSIVE SeqsUpTo(_, _)
SeqsUpTo(S, n) ==
  IF n = 0 THEN {<<>>}
  ELSE LET shorter == SeqsUpTo(S, n - 1)
       IN  shorter \cup {Append(s, x) : s \in {t \in shorter : Len(t) = n - 1}, x \in S}

SimArgs ==
  [initialValue : InitialValues, events : SeqsUpTo(ProjectionEvents, MaxEvents),
   annualRate : Rates, startYear : Years, endYear : Years]

-----------------------------------------------------------------------------
(* Direct calls of the simulator *)

Init ==
  /\ now = Date(FirstYear, 1, 1)
  /\ simArgs \in SimArgs
  /\ simResult = Null
  /\ simPrev = Null
  /\ db = Null
  /\ response = Null
  /\ simulations = <<>>
  /\ saved = <<>>
  /\ cache = <<>>
  /\ tagIndex = <<>>
  /\ inflight = <<>>
  /\ written = <<>>

\* time passes
Tick ==
  /\ \E t \in Clock : t > now /\ now' = t
  /\ UNCHANGED <<simArgs, simResult, simPrev, db, response, simulations, saved, cache, tagIndex, inflight, written>>

CallSimulate ==
  /\ simResult' = simulateWealthCurve(simArgs.initialValue, simArgs.events,
                     simArgs.annualRate, simArgs.startYear, simArgs.endYear, now)
  /\ simPrev' = simResult
  /\ UNCHANGED <<now, simArgs, db, response, simulations, saved, cache, tagIndex, inflight, written>>

Next == Tick \/ CallSimulate

Spec == Init /\ [][Next]_vars

-----------------------------------------------------------------------------
(* ProjectionService.createClientProjection and the projection routes *)

NotFound == [error |-> "Cliente nao encontrado"]

\* projectionPoints[projectionPoints.length - 1]?.projectedValue || initialValue:
\* the last point's value unless there is no point or the value is falsy (0)
FinalValueOf(points, initialValue) ==
  IF Len(points) = 0 THEN initialValue
  ELSE IF points[Len(points)].projectedValue = 0 THEN initialValue
  ELSE points[Len(points)].projectedValue

\* the conversion of the stored events (client.events.map)
ToProjectionEvent(event, clock) ==
  [type |-> event.type,
   value |-> event.value,
   frequency |-> IF event.frequency = None THEN "once" ELSE event.frequency,
   startDate |-> IF event.date = NoDate THEN clock ELSE event.date,
   endDate |-> IF event.frequency = "once"
               THEN (IF event.date = NoDate THEN clock ELSE event.date)
               ELSE HorizonEnd]

ToProjectionEvents(events, clock) ==
  [j \in 1..Len(events) |-> ToProjectionEvent(events[j], clock)]

\* client.wallet?.totalValue || 0
WalletValue(client) == IF client.wallet = Null THEN 0 ELSE client.wallet.totalValue

Projection(initialValue, annualRate, points) ==
  Let(points, LAMBDA projectionPoints :
    Let(FinalValueOf(projectionPoints, initialValue), LAMBDA finalValue :
      [clientId |-> "c1", initialValue |-> initialValue, annualRate |-> annualRate,
       projectionPoints |-> projectionPoints, finalValue |-> finalValue,
       totalReturn |-> finalValue - initialValue]))

\* a variant of createClientProjection that projects an empty wallet for a
\* client that is not found
createClientProjectionOfNobody(client, annualRate, clock) ==
  IF client = Null
  THEN Projection(0, annualRate,
                  simulateWealthCurve(0, <<>>, annualRate, getFullYear(clock),
                                      EndYearDefault, clock))
  ELSE Projection(WalletValue(client), annualRate,
                  simulateWealthCurve(WalletValue(client),
                                      ToProjectionEvents(client.events, clock),
                                      annualRate, getFullYear(clock), EndYearDefault, clock))

\* client is the record findUnique returned, or Null
createClientProjection(client, annualRate, clock) ==
  IF client = Null THEN NotFound
  ELSE Projection(WalletValue(client), annualRate,
                  simulateWealthCurve(WalletValue(client),
                                      ToProjectionEvents(client.events, clock),
                                      annualRate, getFullYear(clock), EndYearDefault, clock))

\* the December points, as {year, projectedValue}
getAnnualProjection(projection) ==
  Let(SelectSeq(projection.projectionPoints, LAMBDA pt : pt.month = MonthsPerYear),
      LAMBDA december :
        [j \in 1..Len(december) |->
           [year |-> december[j].year, projectedValue |-> december[j].projectedValue]])

-----------------------------------------------------------------------------
(* SuggestionService *)

MonthDays == 30
ExtendStep == 100000          \* goal.gap / 1000, in cents
HighGap == 10000000           \* gap > 100000, in cents
MediumGap == 5000000          \* gap > 50000, in cents
ConservativeShare == 60
GainPercent == 15

\* Math.ceil(a / b) for b > 0
Ceil(a, b) == -((-a) \div b)

calculateMonthsUntilDate(targetDate, clock) ==
  LET diffMonths == Ceil(targetDate - clock, MonthDays)
  IN  IF diffMonths > 0 THEN diffMonths ELSE 0

\* projectionAtTarget?.projectedValue || projection.finalValue
ProjectedAtTarget(goal, projection) ==
  Let([targetYear |-> getFullYear(goal.targetAt), targetMonth |-> getMonth(goal.targetAt) + 1],
      LAMBDA t :
    Let(SelectSeq(projection.projectionPoints,
                  LAMBDA pt : pt.year = t.targetYear /\ pt.month = t.targetMonth),
        LAMBDA found :
          IF Len(found) = 0 THEN projection.finalValue
          ELSE IF found[1].projectedValue = 0 THEN projection.finalValue
          ELSE found[1].projectedValue))

AnalyzeGoal(goal, projection) ==
  Let(goal.amount - ProjectedAtTarget(goal, projection), LAMBDA gap :
    [id |-> goal.id, type |-> goal.type, amount |-> goal.amount,
     targetDate |-> goal.targetAt, gap |-> gap, feasible |-> (gap <= 0)])

analyzeGoals(goals, projection) ==
  [j \in 1..Len(goals) |-> AnalyzeGoal(goals[j], projection)]

\* GapPriority, if the 'medium' range were missing
GapPriorityTwoLevels(gap) == IF gap > HighGap THEN "high" ELSE "low"

GapPriority(gap) == IF gap > HighGap THEN "high" ELSE IF gap > MediumGap THEN "medium" ELSE "low"

\* IncreaseContribution, if the monthly amount were rounded down (Math.floor)
IncreaseContributionFloor(goal, monthsUntilGoal) ==
  IF monthsUntilGoal > 0
  THEN <<[id |-> <<"increase_contribution", goal.id>>, type |-> "increase_contribution",
          impact |-> [monthlyAmount |-> 100 * (goal.gap \div (100 * monthsUntilGoal)),
                      timeframe |-> monthsUntilGoal, projectedGain |-> goal.gap],
          priority |-> GapPriority(goal.gap), category |-> "contribution"]>>
  ELSE <<>>

\* the suggestion for a larger monthly contribution, when months remain
IncreaseContribution(goal, monthsUntilGoal) ==
  IF monthsUntilGoal > 0
  THEN <<[id |-> <<"increase_contribution", goal.id>>, type |-> "increase_contribution",
          impact |-> [monthlyAmount |-> 100 * Ceil(goal.gap, 100 * monthsUntilGoal),
                      timeframe |-> monthsUntilGoal, projectedGain |-> goal.gap],
          priority |-> GapPriority(goal.gap), category |-> "contribution"]>>
  ELSE <<>>

\* the suggestions pushed for one analysed goal, in order
GoalSuggestions(goal, clock) ==
  IF ~goal.feasible /\ goal.gap > 0
  THEN IncreaseContribution(goal, calculateMonthsUntilDate(goal.targetDate, clock))
       \o <<[id |-> <<"extend_timeline", goal.id>>, type |-> "extend_timeline",
             impact |-> [timeframe |-> Ceil(goal.gap, ExtendStep),
                         projectedGain |-> goal.gap],
             priority |-> "medium", category |-> "timeline"],
            [id |-> <<"reduce_goal", goal.id>>, type |-> "reduce_goal",
             impact |-> [totalAmount |-> IF goal.gap < 0 THEN -goal.gap ELSE goal.gap],
             priority |-> "low", category |-> "goal"]>>
  ELSE <<>>

RECURSIVE AllGoalSuggestions(_, _, _)
AllGoalSuggestions(goalAnalysis, j, clock) ==
  IF j > Len(goalAnalysis) THEN <<>>
  ELSE GoalSuggestions(goalAnalysis[j], clock) \o AllGoalSuggestions(goalAnalysis, j + 1, clock)

\* the allocation suggestion, when some class holds more than 60%
AllocationSuggestion(client, projection) ==
  IF /\ client.wallet # Null
     /\ \E j \in 1..Len(client.wallet.allocation) :
          client.wallet.allocation[j] > ConservativeShare
  THEN <<[id |-> <<"optimize_allocation">>, type |-> "adjust_allocation",
          impact |-> [projectedGain |-> [num |-> projection.finalValue * GainPercent,
                                         den |-> 100]],
          priority |-> "medium", category |-> "allocation"]>>
  ELSE <<>>

\* SortByPriority, if the comparator's operands were swapped (low first)
SortByPriorityAscending(suggestions) ==
  Let(suggestions, LAMBDA all :
    SelectSeq(all, LAMBDA x : x.priority = "low")
    \o SelectSeq(all, LAMBDA x : x.priority = "medium")
    \o SelectSeq(all, LAMBDA x : x.priority = "high"))

\* suggestions.sort by priority, high first; Array.prototype.sort is stable
SortByPriority(suggestions) ==
  Let(suggestions, LAMBDA all :
    SelectSeq(all, LAMBDA x : x.priority = "high")
    \o SelectSeq(all, LAMBDA x : x.priority = "medium")
    \o SelectSeq(all, LAMBDA x : x.priority = "low"))

createSuggestions(client, goalAnalysis, projection, clock) ==
  SortByPriority(AllGoalSuggestions(goalAnalysis, 1, clock)
                 \o AllocationSuggestion(client, projection))

calculateOverallAlignment(goalAnalysis) ==
  IF Len(goalAnalysis) = 0 THEN 100
  ELSE (200 * Len(SelectSeq(goalAnalysis, LAMBDA g : g.feasible)) + Len(goalAnalysis))
         \div (2 * Len(goalAnalysis))

generateSuggestions(client, clock) ==
  IF client = Null THEN NotFound
  ELSE Let(createClientProjection(client, DefaultRate, clock), LAMBDA currentProjection :
         Let(analyzeGoals(client.goals, currentProjection), LAMBDA goalAnalysis :
           [clientId |-> "c1", currentProjection |-> currentProjection,
            goals |-> goalAnalysis,
            suggestions |-> createSuggestions(client, goalAnalysis, currentProjection, clock),
            overallAlignment |-> calculateOverallAlignment(goalAnalysis)]))

\* SimulatedEvents, if the suggestion's type were not looked at
SimulatedEventsAnyType(client, suggestion, clock) ==
  IF /\ "monthlyAmount" \in DOMAIN suggestion.impact
     /\ suggestion.impact.monthlyAmount # 0
  THEN Append(client.events,
              [type |-> "Aporte Adicional", value |-> suggestion.impact.monthlyAmount,
               frequency |-> "monthly", date |-> clock])
  ELSE client.events

\* the stored events plus the synthetic monthly contribution
SimulatedEvents(client, suggestion, clock) ==
  IF /\ suggestion.type = "increase_contribution"
     /\ "monthlyAmount" \in DOMAIN suggestion.impact
     /\ suggestion.impact.monthlyAmount # 0
  THEN Append(client.events,
              [type |-> "Aporte Adicional", value |-> suggestion.impact.monthlyAmount,
               frequency |-> "monthly", date |-> clock])
  ELSE client.events

simulateSuggestionImpact(client, suggestion, clock) ==
  IF client = Null THEN NotFound
  ELSE Projection(WalletValue(client), DefaultRate,
                  simulateWealthCurve(WalletValue(client),
                                      ToProjectionEvents(
                                        SimulatedEvents(client, suggestion, clock), clock),
                                      DefaultRate, getFullYear(clock), EndYearDefault, clock))

-----------------------------------------------------------------------------
(* Requests against one client's persisted record *)

MaxGoals == 1       \* goals stored for the client

SmallGoal == 100000
MiddleGoal == 7500000
LargeGoal == 200000000

Wallets ==
  {Null,
   [totalValue |-> 1000000, allocation |-> <<60, 40>>],
   [totalValue |-> 1000000, allocation |-> <<80, 20>>]}

StoredEvents ==
  {[type |-> "Aporte Mensal", value |-> Deposit, frequency |-> "monthly", date |-> NoDate],
   [type |-> "Aporte Mensal", value |-> Deposit, frequency |-> "monthly",
    date |-> Date(EndYearDefault, 8, 1)],
   [type |-> "Resgate", value |-> Withdrawal, frequency |-> "monthly",
    date |-> Date(EndYearDefault, 10, 15)],
   [type |-> "Bonus", value |-> Deposit, frequency |-> None,
    date |-> Date(EndYearDefault, 5, 15)],
   [type |-> "Bonus", value |-> Deposit, frequency |-> "yearly",
    date |-> Date(FirstYear, 2, 15)]}

GoalTargets ==
  {Date(FirstYear, 0, 10), Date(EndYearDefault, 5, 15), Date(EndYearDefault + 1, 0, 15)}

StoredGoals == [type : {"Aposentadoria"}, amount : {SmallGoal, MiddleGoal, LargeGoal}, targetAt : GoalTargets]

\* the goals as stored: each with its own id
WithIds(goals) ==
  [j \in 1..Len(goals) |->
     [id |-> j, type |-> goals[j].type, amount |-> goals[j].amount,
      targetAt |-> goals[j].targetAt]]

Clients ==
  {[wallet |-> w, events |-> es, goals |-> WithIds(gs)] :
     w \in Wallets, es \in SeqsUpTo(StoredEvents, MaxEvents),
     gs \in SeqsUpTo(StoredGoals, MaxGoals)}

\* bodies of POST /projections/simulate that pass simulationBodySchema
SimulationBodies ==
  {[initialValue |-> 1000000,
    events |-> <<[type |-> "Aporte Mensal", value |-> Deposit, frequency |-> "monthly",
                  startDate |-> NoDate, endDate |-> NoDate]>>,
    annualRate |-> DefaultRate, endYear |-> EndYearDefault],
   [initialValue |-> 1000000,
    events |-> <<[type |-> "Resgate", value |-> Withdrawal, frequency |-> "monthly",
                  startDate |-> Date(EndYearDefault, 10, 15), endDate |-> NoDate]>>,
    annualRate |-> [num |-> 0, den |-> 1], startYear |-> EndYearDefault,
    endYear |-> EndYearDefault],
   [initialValue |-> 1000000, events |-> <<>>, annualRate |-> DefaultRate,
    startYear |-> EndYearDefault, endYear |-> EndYearDefault - 1]}

\* bodies of POST /suggestions/client/:id/simulate
SuggestionBodies ==
  {[type |-> "increase_contribution",
    impact |-> [monthlyAmount |-> Deposit, timeframe |-> MonthsPerYear]],
   [type |-> "increase_contribution",
    impact |-> [monthlyAmount |-> 0, timeframe |-> MonthsPerYear]],
   [type |-> "extend_timeline",
    impact |-> [timeframe |-> MonthsPerYear]],
   [type |-> "reduce_goal",
    impact |-> [monthlyAmount |-> Deposit, totalAmount |-> SmallGoal]]}

InitClient ==
  /\ now = Date(FirstYear, 1, 1)
  /\ db \in Clients \cup {Null}
  /\ response = Null
  /\ simArgs = Null
  /\ simResult = Null
  /\ simPrev = Null
  /\ simulations = <<>>
  /\ saved = <<>>
  /\ cache = <<>>
  /\ tagIndex = <<>>
  /\ inflight = <<>>
  /\ written = <<>>

\* In a reply, data is the body sent and projection the WealthProjection the
\* handler built for it.

\* GET /projections/client/:id/annual
GetAnnualProjection ==
  /\ response = Null
  /\ \E annualRate \in {[num |-> 0, den |-> 1], DefaultRate} :
       response' =
         Let(createClientProjection(db, annualRate, now), LAMBDA projection :
           IF projection = NotFound
           THEN [op |-> "annual", status |-> 404]
           ELSE [op |-> "annual", status |-> 200,
                 data |-> [clientId |-> projection.clientId,
                           initialValue |-> projection.initialValue,
                           finalValue |-> projection.finalValue,
                           totalReturn |-> projection.totalReturn,
                           annualRate |-> projection.annualRate,
                           projectionPoints |-> getAnnualProjection(projection)],
                 projection |-> projection])
  /\ UNCHANGED <<now, db, simArgs, simResult, simPrev, simulations, saved, cache, tagIndex, inflight, written>>

\* the events of the body, as the route hands them to the simulator
BodyEvents(body, clock) ==
  [j \in 1..Len(body.events) |->
     [body.events[j] EXCEPT !.startDate = IF @ = NoDate THEN clock ELSE @,
                            !.endDate = IF @ = NoDate THEN HorizonEnd ELSE @]]

\* POST /projections/simulate
PostSimulate ==
  /\ response = Null
  /\ \E body \in SimulationBodies :
       response' =
         Let(simulateWealthCurve(body.initialValue, BodyEvents(body, now), body.annualRate,
                                 IF "startYear" \notin DOMAIN body THEN getFullYear(now)
                                 ELSE body.startYear,
                                 body.endYear, now),
             LAMBDA projectionPoints :
           Let(FinalValueOf(projectionPoints, body.initialValue), LAMBDA finalValue :
             [op |-> "simulate", status |-> 200,
              data |-> [initialValue |-> body.initialValue,
                        finalValue |-> finalValue,
                        totalReturn |-> finalValue - body.initialValue,
                        annualRate |-> body.annualRate,
                        projectionPoints |->
                          SelectSeq(projectionPoints, LAMBDA pt : pt.month = MonthsPerYear)],
              projection |-> [initialValue |-> body.initialValue,
                              projectionPoints |-> projectionPoints]]))
  /\ UNCHANGED <<now, db, simArgs, simResult, simPrev, simulations, saved, cache, tagIndex, inflight, written>>

\* GET /suggestions/client/:id
GetSuggestions ==
  /\ response = Null
  /\ response' =
       Let(generateSuggestions(db, now), LAMBDA analysis :
         IF analysis = NotFound
         THEN [op |-> "suggestions", status |-> 404]
         ELSE [op |-> "suggestions", status |-> 200, at |-> now, data |-> analysis])
  /\ UNCHANGED <<now, db, simArgs, simResult, simPrev, simulations, saved, cache, tagIndex, inflight, written>>

\* POST /suggestions/client/:id/simulate (the improvement percentage and its
\* description text are left out of the reply; original is the projection the
\* handler compared with; both service calls read the same clock value)
PostSuggestionSimulate ==
  /\ response = Null
  /\ \E suggestion \in SuggestionBodies :
       response' =
         Let(simulateSuggestionImpact(db, suggestion, now), LAMBDA impactProjection :
           IF impactProjection = NotFound
           THEN [op |-> "impact", status |-> 404]
           ELSE Let(createClientProjection(db, DefaultRate, now), LAMBDA originalProjection :
                  [op |-> "impact", status |-> 200, at |-> now, suggestion |-> suggestion,
                   data |-> [finalValue |-> impactProjection.finalValue,
                             totalReturn |-> impactProjection.totalReturn,
                             originalFinalValue |-> originalProjection.finalValue,
                             originalTotalReturn |-> originalProjection.totalReturn,
                             improvement |-> impactProjection.finalValue
                                               - originalProjection.finalValue],
                   projection |-> impactProjection, original |-> originalProjection]))
  /\ UNCHANGED <<now, db, simArgs, simResult, simPrev, simulations, saved, cache, tagIndex, inflight, written>>

\* the caller reads the reply; requests are issued one at a time
Deliver ==
  /\ response # Null
  /\ response' = Null
  /\ UNCHANGED <<now, db, simArgs, simResult, simPrev, simulations, saved, cache, tagIndex, inflight, written>>

NextClient ==
  \/ Tick
  \/ GetAnnualProjection
  \/ PostSimulate
  \/ GetSuggestions
  \/ PostSuggestionSimulate
  \/ Deliver

SpecClient == InitClient /\ [][NextClient]_vars

-----------------------------------------------------------------------------
(* SimulationHistoryService and the routes over the Simulation table *)

MaxSaves == 3       \* simulations created over a run
MaxElapsed == 2     \* clock steps taken over a run

\* {...a, ...b}
Spread(a, b) == [k \in DOMAIN a \cup DOMAIN b |-> IF k \in DOMAIN b THEN b[k] ELSE a[k]]

\* A name is a record: its text and, for a generated name, the date formatted
\* into it.  An empty text is the empty string.
NoName == [text |-> "Simulacao sem nome"]
DefaultName(clock) == [text |-> "Simulacao", date |-> clock]

\* x.name || ..., x.tags || ..., x.description for an object x
HasName(x) == "name" \in DOMAIN x /\ x.name.text # ""
TagsOf(x) == IF "tags" \in DOMAIN x THEN x.tags ELSE <<>>
DescriptionOf(x) == IF "description" \in DOMAIN x THEN [description |-> x.description] ELSE <<>>

\* the reduce of saveSimulation: an event is kept unless one with the same
\* type, value and frequency was kept before
PushUnique(unique, event) ==
  IF \E j \in 1..Len(unique) : /\ unique[j].type = event.type
                               /\ unique[j].value = event.value
                               /\ unique[j].frequency = event.frequency
  THEN unique
  ELSE Append(unique, event)

\* parameters.events: the events of all points, deduplicated
ParameterEvents(projectionPoints) ==
  FoldRange(LAMBDA unique, i :
              FoldRange(LAMBDA u, j : PushUnique(u, projectionPoints[i].events[j]),
                        unique, 1, Len(projectionPoints[i].events) + 1),
            <<>>, 1, Len(projectionPoints) + 1)

\* the payload SimulationHistoryService.saveSimulation stores
SimulationPayload(projection, metadata, clock) ==
  Spread(projection,
         [metadata |->
            Spread([name |-> IF HasName(metadata) THEN metadata.name ELSE DefaultName(clock),
                    tags |-> TagsOf(metadata),
                    parameters |-> [initialValue |-> projection.initialValue,
                                    annualRate |-> projection.annualRate,
                                    events |-> ParameterEvents(projection.projectionPoints)],
                    results |-> [finalValue |-> projection.finalValue,
                                 totalReturn |-> projection.totalReturn,
                                 projectionYears |-> getFullYear(clock) - EndYearDefault]],
                   DescriptionOf(metadata))])

\* prisma.simulation.create: a fresh id, createdAt from the clock
CreateRow(clientId, payload, clock) ==
  [id |-> Len(saved) + 1, clientId |-> clientId, payload |-> payload, createdAt |-> clock]

\* payload.metadata || {}
MetadataOf(payload) == IF "metadata" \in DOMAIN payload THEN payload.metadata ELSE <<>>

\* SimulationMetadata, if the results were read from the client's current data
SimulationMetadataLive(sim) ==
  Let(MetadataOf(sim.payload), LAMBDA metadata :
    Spread([id |-> sim.id,
            clientId |-> sim.clientId,
            name |-> IF HasName(metadata) THEN metadata.name ELSE NoName,
            parameters |->
              IF "parameters" \in DOMAIN metadata THEN metadata.parameters
              ELSE [initialValue |-> sim.payload.initialValue,
                    annualRate |-> IF sim.payload.annualRate.num = 0 THEN DefaultRate
                                   ELSE sim.payload.annualRate,
                    events |-> <<>>],
            results |->
              Let(createClientProjection(db, DefaultRate, now), LAMBDA live :
                [finalValue |-> live.finalValue, totalReturn |-> live.totalReturn,
                 projectionYears |-> 0]),
            tags |-> TagsOf(metadata),
            createdAt |-> sim.createdAt],
           DescriptionOf(metadata)))

\* the SimulationMetadata built from a row (the Simulation table has no
\* updatedAt column)
SimulationMetadata(sim) ==
  Let(MetadataOf(sim.payload), LAMBDA metadata :
    Spread([id |-> sim.id,
            clientId |-> sim.clientId,
            name |-> IF HasName(metadata) THEN metadata.name ELSE NoName,
            parameters |->
              IF "parameters" \in DOMAIN metadata THEN metadata.parameters
              ELSE [initialValue |-> sim.payload.initialValue,
                    annualRate |-> IF sim.payload.annualRate.num = 0 THEN DefaultRate
                                   ELSE sim.payload.annualRate,
                    events |-> <<>>],
            results |->
              IF "results" \in DOMAIN metadata THEN metadata.results
              ELSE [finalValue |-> sim.payload.finalValue,
                    totalReturn |-> sim.payload.totalReturn,
                    projectionYears |-> 0],
            tags |-> TagsOf(metadata),
            createdAt |-> sim.createdAt],
           DescriptionOf(metadata)))

SimulationMetadataList(rows) == [j \in 1..Len(rows) |-> SimulationMetadata(rows[j])]

\* the orders in which findMany may return rows: any order when order is
\* None, else by createdAt with rows of equal createdAt in any order
FindManyOrders(rows, order) ==
  {[i \in 1..Len(rows) |-> rows[p[i]]] :
     p \in {q \in Permutations(1..Len(rows)) :
              \A i, j \in 1..Len(rows) :
                i < j => CASE order = "asc" -> rows[q[i]].createdAt <= rows[q[j]].createdAt
                           [] order = "desc" -> rows[q[i]].createdAt >= rows[q[j]].createdAt
                           [] OTHER -> TRUE}}

\* ClientRows, if the where clause were missing
ClientRowsAll(rows, clientId) == rows

\* where: { clientId }
ClientRows(rows, clientId) == SelectSeq(rows, LAMBDA sim : sim.clientId = clientId)

\* skip and take
Page(ordered, skip, take) ==
  IF skip >= Len(ordered) THEN <<>>
  ELSE SubSeq(ordered, skip + 1, IF skip + take > Len(ordered) THEN Len(ordered) ELSE skip + take)

SortKey(sim, sortBy) ==
  IF sortBy = "finalValue" THEN sim.results.finalValue ELSE sim.results.totalReturn

\* one step of the stable sort: x goes before the first element that the
\* comparator puts after it
InsertSorted(sorted, x, sortBy, sortOrder) ==
  LET after == {j \in 1..Len(sorted) :
                  IF sortOrder = "asc" THEN SortKey(sorted[j], sortBy) > SortKey(x, sortBy)
                  ELSE SortKey(sorted[j], sortBy) < SortKey(x, sortBy)}
      pos == IF after = {} THEN Len(sorted) + 1
             ELSE CHOOSE j \in after : \A k \in after : j <= k
  IN  SubSeq(sorted, 1, pos - 1) \o <<x>> \o SubSeq(sorted, pos, Len(sorted))

\* filteredSimulations.sort on finalValue or totalReturn
SortByValue(list, sortBy, sortOrder) ==
  FoldRange(LAMBDA sorted, i : InsertSorted(sorted, list[i], sortBy, sortOrder),
            <<>>, 1, Len(list) + 1)

\* tags.some(tag => sim.tags.includes(tag))
SomeTag(tags, sim) ==
  \E i \in 1..Len(tags) : \E j \in 1..Len(sim.tags) : tags[i] = sim.tags[j]

\* page, limit, sortBy, sortOrder with their defaults
OptionsWithDefaults(options) ==
  Spread([page |-> 1, limit |-> 10, sortBy |-> "createdAt", sortOrder |-> "desc"], options)

\* getClientSimulations, given the page of rows findMany returned and the
\* count of the client's rows
getClientSimulations(found, total, options) ==
  Let(OptionsWithDefaults(options), LAMBDA o :
    Let(SimulationMetadataList(found), LAMBDA simulationMetadata :
      Let(IF "tags" \in DOMAIN o /\ Len(o.tags) > 0
          THEN SelectSeq(simulationMetadata, LAMBDA sim : SomeTag(o.tags, sim))
          ELSE simulationMetadata, LAMBDA filteredSimulations :
        [simulations |-> IF o.sortBy # "createdAt"
                         THEN SortByValue(filteredSimulations, o.sortBy, o.sortOrder)
                         ELSE filteredSimulations,
         pagination |-> [page |-> o.page, limit |-> o.limit, total |-> total,
                         totalPages |-> Ceil(total, o.limit)]])))

\* FindOrder, if sortOrder were handed to findMany whatever the sort key
FindOrderAlways(options) == OptionsWithDefaults(options).sortOrder

\* the order findMany is asked for
FindOrder(options) ==
  Let(OptionsWithDefaults(options), LAMBDA o :
    IF o.sortBy = "createdAt" THEN o.sortOrder ELSE "desc")

\* MaxOf, if the first value were taken for the largest
MaxOfFirst(values) == values[1]

MaxOf(values) == CHOOSE v \in {values[j] : j \in 1..Len(values)} :
                   \A j \in 1..Len(values) : values[j] <= v
MinOf(values) == CHOOSE v \in {values[j] : j \in 1..Len(values)} :
                   \A j \in 1..Len(values) : values[j] >= v
\* Array.prototype.indexOf, counted from 1
IndexOf(values, v) == CHOOSE i \in 1..Len(values) :
                        values[i] = v /\ \A j \in 1..(i - 1) : values[j] # v
Sum(values) == FoldRange(LAMBDA sum, j : sum + values[j], 0, 1, Len(values) + 1)

\* the failure of compareSimulations when no row was found: Math.max() of
\* nothing is -Infinity, indexOf gives -1 and reading .id of undefined throws
TypeError == [error |-> "TypeError"]

\* compareSimulations, given the rows findMany returned; an average is the
\* exact quotient num / den
compareSimulations(found) ==
  IF Len(found) = 0 THEN TypeError
  ELSE
    Let(SimulationMetadataList(found), LAMBDA simulationMetadata :
      Let([finalValues |-> [j \in 1..Len(found) |-> simulationMetadata[j].results.finalValue],
           totalReturns |-> [j \in 1..Len(found) |-> simulationMetadata[j].results.totalReturn]],
          LAMBDA v :
        Let([best |-> IndexOf(v.finalValues, MaxOf(v.finalValues)),
             worst |-> IndexOf(v.finalValues, MinOf(v.finalValues))], LAMBDA index :
          [simulations |-> simulationMetadata,
           comparison |->
             [bestPerformance |-> [simulationId |-> simulationMetadata[index.best].id,
                                   finalValue |-> v.finalValues[index.best],
                                   totalReturn |-> v.totalReturns[index.best]],
              worstPerformance |-> [simulationId |-> simulationMetadata[index.worst].id,
                                    finalValue |-> v.finalValues[index.worst],
                                    totalReturn |-> v.totalReturns[index.worst]],
              averageFinalValue |-> [num |-> Sum(v.finalValues), den |-> Len(found)],
              averageReturn |-> [num |-> Sum(v.totalReturns), den |-> Len(found)]]])))

\* updateSimulationMetadata, if the stored metadata were replaced, not merged
updateSimulationMetadataReplace(currentPayload, metadata, clock) ==
  Spread(currentPayload, [metadata |-> Spread(metadata, [updatedAt |-> clock])])

\* the payload updateSimulationMetadata writes back
updateSimulationMetadata(currentPayload, metadata, clock) ==
  Spread(currentPayload,
         [metadata |-> Spread(Spread(MetadataOf(currentPayload), metadata),
                              [updatedAt |-> clock])])

\* deleteSimulation, if every simulation of the same client were deleted
deleteSimulationOfClient(rows, simulationId) ==
  SelectSeq(rows, LAMBDA sim :
    \A j \in 1..Len(rows) : rows[j].id = simulationId => rows[j].clientId # sim.clientId)

\* the rows without the one of the given id
deleteSimulation(rows, simulationId) == SelectSeq(rows, LAMBDA sim : sim.id # simulationId)

\* simulations.reduce: the first row, in the order found, of the largest finalValue
BestOf(simulationData) ==
  FoldRange(LAMBDA best, j :
              IF simulationData[j].finalValue > best.finalValue THEN simulationData[j]
              ELSE best,
            simulationData[1], 2, Len(simulationData) + 1)

\* getClientSimulationStats, given the client's rows as findMany returned them
getClientSimulationStats(found, clock) ==
  IF Len(found) = 0
  THEN [totalSimulations |-> 0, averageFinalValue |-> [num |-> 0, den |-> 1],
        bestSimulation |-> Null,
        recentActivity |-> [lastSimulation |-> NoDate, simulationsThisMonth |-> 0]]
  ELSE
    Let([j \in 1..Len(found) |->
           [id |-> found[j].id,
            name |-> IF HasName(MetadataOf(found[j].payload))
                     THEN found[j].payload.metadata.name ELSE NoName,
            finalValue |-> found[j].payload.finalValue,
            createdAt |-> found[j].createdAt]], LAMBDA simulationData :
      [totalSimulations |-> Len(found),
       averageFinalValue |->
         [num |-> Sum([j \in 1..Len(found) |-> simulationData[j].finalValue]),
          den |-> Len(found)],
       bestSimulation |-> Let(BestOf(simulationData), LAMBDA best :
                            [id |-> best.id, name |-> best.name,
                             finalValue |-> best.finalValue]),
       recentActivity |->
         [lastSimulation |-> found[1].createdAt,
          simulationsThisMonth |->
            Len(SelectSeq(found, LAMBDA sim :
                  sim.createdAt >= Date(getFullYear(clock), getMonth(clock), 1)))]])

-----------------------------------------------------------------------------
(* Requests against the Simulation table *)

ClientIds == {"c1", "c2"}

\* what the record of client c1 may hold; db is that record
HistoryClients ==
  {[wallet |-> [totalValue |-> 1000000, allocation |-> <<60, 40>>],
    events |-> <<>>, goals |-> <<>>],
   [wallet |-> Null,
    events |-> <<[type |-> "Aporte Mensal", value |-> Deposit, frequency |-> "monthly",
                  date |-> Date(EndYearDefault, 0, 1)]>>,
    goals |-> <<>>]}

\* the record of client c2, which no request changes
OtherClient ==
  [wallet |-> [totalValue |-> 250, allocation |-> <<80, 20>>], events |-> <<>>, goals |-> <<>>]

ClientRecord(clientId) == IF clientId = "c1" THEN db ELSE OtherClient

\* createClientProjection for the client of the request
ProjectionFor(clientId, annualRate, clock) ==
  [createClientProjection(ClientRecord(clientId), annualRate, clock)
     EXCEPT !.clientId = clientId]

\* the simulation client c2 saved before the requests modelled here
OtherRow ==
  [id |-> 0, clientId |-> "c2",
   payload |-> ProjectionFor("c2", DefaultRate, Date(EndYearDefault, 0, 15)),
   createdAt |-> Date(EndYearDefault, 0, 15)]

\* bodies of POST /projections/client/:id/save-with-metadata
SaveBodies ==
  {[name |-> [text |-> "Plano A"], tags |-> <<"longo prazo">>, annualRate |-> DefaultRate],
   [description |-> "sem nome", annualRate |-> DefaultRate]}

\* queries of GET /projections/client/:id/history, defaults filled in
HistoryQueries ==
  {[page |-> 1, limit |-> 2, sortBy |-> "createdAt", sortOrder |-> "desc"],
   [page |-> 2, limit |-> 2, sortBy |-> "createdAt", sortOrder |-> "asc"],
   [page |-> 1, limit |-> 2, sortBy |-> "finalValue", sortOrder |-> "desc"],
   [page |-> 2, limit |-> 2, sortBy |-> "finalValue", sortOrder |-> "desc"],
   [page |-> 1, limit |-> 2, sortBy |-> "totalReturn", sortOrder |-> "asc"],
   [page |-> 1, limit |-> 10, sortBy |-> "createdAt", sortOrder |-> "desc",
    tags |-> <<"longo prazo">>]}

\* simulation ids a request may name: those created so far and one never created
RequestIds == 1..(MaxSaves + 1)

\* bodies of POST /projections/compare
CompareBodies ==
  {<<1>>, <<1, 2>>, <<0, 3>>, <<3, 3>>, <<4, 4>>, <<1, 2, 3, 1, 2, 3>>}

\* bodies of PUT /projections/simulations/:id/metadata
MetadataBodies ==
  {[name |-> [text |-> "Revisado"]],
   [description |-> "cenario base", tags |-> <<"revisto">>]}

\* the summary kept in saved
Summary(projection) ==
  [finalValue |-> projection.finalValue, totalReturn |-> projection.totalReturn]

InitHistory ==
  /\ now = Date(EndYearDefault, 1, 1)
  /\ db \in HistoryClients
  /\ response = Null
  /\ simulations = <<OtherRow>>
  /\ saved = <<>>
  /\ cache = <<>>
  /\ tagIndex = <<>>
  /\ inflight = <<>>
  /\ written = <<>>
  /\ simArgs = Null
  /\ simResult = Null
  /\ simPrev = Null

\* time passes between requests; a step of the clock is taken only after a row
\* was stamped with the current time
Elapse ==
  /\ response = Null
  /\ now < Date(EndYearDefault, 1, 1) + MaxElapsed
  /\ \E j \in 1..Len(simulations) : simulations[j].createdAt = now
  /\ now' = now + 1
  /\ UNCHANGED <<db, response, simulations, saved, simArgs, simResult, simPrev, cache, tagIndex, inflight, written>>

\* the wallet or the events of client c1 are replaced (while saves remain)
ChangeClient ==
  /\ response = Null
  /\ Len(saved) < MaxSaves
  /\ \E client \in HistoryClients \ {db} : db' = client
  /\ UNCHANGED <<now, response, simulations, saved, simArgs, simResult, simPrev, cache, tagIndex, inflight, written>>

\* POST /projections/client/:id/save (ProjectionService.saveSimulation stores
\* the projection itself as payload; the projection is left out of the reply)
PostSave ==
  /\ response = Null
  /\ Len(saved) < MaxSaves
  /\ \E projection \in {createClientProjection(db, DefaultRate, now)} :
       IF projection = NotFound
       THEN /\ response' = [op |-> "save", status |-> 404]
            /\ UNCHANGED <<simulations, saved>>
       ELSE /\ simulations' = Append(simulations, CreateRow("c1", projection, now))
            /\ saved' = Append(saved, Summary(projection))
            /\ response' = [op |-> "save", status |-> 201,
                            data |-> [simulationId |-> Len(saved) + 1]]
  /\ UNCHANGED <<now, db, simArgs, simResult, simPrev, cache, tagIndex, inflight, written>>

\* POST /projections/client/:id/save-with-metadata
PostSaveWithMetadata ==
  /\ response = Null
  /\ Len(saved) < MaxSaves
  /\ \E body \in SaveBodies :
       \E projection \in {createClientProjection(db, body.annualRate, now)} :
         IF projection = NotFound
         THEN /\ response' = [op |-> "save", status |-> 404]
              /\ UNCHANGED <<simulations, saved>>
         ELSE /\ simulations' =
                   Append(simulations,
                          CreateRow("c1", SimulationPayload(projection, body, now),
                                    now))
              /\ saved' = Append(saved, Summary(projection))
              /\ response' = [op |-> "save", status |-> 201,
                              data |-> [simulationId |-> Len(saved) + 1]]
  /\ UNCHANGED <<now, db, simArgs, simResult, simPrev, cache, tagIndex, inflight, written>>

\* GET /projections/client/:id/history
GetHistory ==
  /\ response = Null
  /\ \E query \in HistoryQueries :
       \E ordered \in FindManyOrders(ClientRows(simulations, "c1"), FindOrder(query)) :
         response' =
           [op |-> "history", status |-> 200, clientId |-> "c1", query |-> query,
            data |-> getClientSimulations(
                       Page(ordered, (query.page - 1) * query.limit, query.limit),
                       Len(ordered), query)]
  /\ UNCHANGED <<now, db, simulations, saved, simArgs, simResult, simPrev, cache, tagIndex, inflight, written>>

\* ValidCompareBody, if the schema had no upper limit
ValidCompareBodyNoMax(simulationIds) == Len(simulationIds) >= 2

\* z.array(z.string().cuid()).min(2).max(5)
ValidCompareBody(simulationIds) == Len(simulationIds) >= 2 /\ Len(simulationIds) <= 5

\* POST /projections/compare
PostCompare ==
  /\ response = Null
  /\ \E simulationIds \in CompareBodies :
       IF ~ValidCompareBody(simulationIds)
       THEN response' = [op |-> "compare", status |-> 400, simulationIds |-> simulationIds]
       ELSE \E found \in FindManyOrders(
                           SelectSeq(simulations, LAMBDA sim :
                             \E j \in 1..Len(simulationIds) : simulationIds[j] = sim.id),
                           None) :
              response' =
                Let(compareSimulations(found), LAMBDA comparison :
                  IF comparison = TypeError
                  THEN [op |-> "compare", status |-> 500, simulationIds |-> simulationIds]
                  ELSE [op |-> "compare", status |-> 200, simulationIds |-> simulationIds,
                        data |-> comparison])
  /\ UNCHANGED <<now, db, simulations, saved, simArgs, simResult, simPrev, cache, tagIndex, inflight, written>>

Exists(simulationId) == \E j \in 1..Len(simulations) : simulations[j].id = simulationId

\* PUT /projections/simulations/:id/metadata
PutMetadata ==
  /\ response = Null
  /\ \E simulationId \in RequestIds, metadata \in MetadataBodies :
       IF ~Exists(simulationId)
       THEN /\ response' = [op |-> "metadata", status |-> 404, simulationId |-> simulationId]
            /\ UNCHANGED simulations
       ELSE /\ \E j \in 1..Len(simulations) :
                 /\ simulations[j].id = simulationId
                 /\ simulations' =
                      [simulations EXCEPT ![j].payload =
                         updateSimulationMetadata(@, metadata, now)]
            /\ response' = [op |-> "metadata", status |-> 200, simulationId |-> simulationId,
                            metadata |-> metadata]
  /\ UNCHANGED <<now, db, saved, simArgs, simResult, simPrev, cache, tagIndex, inflight, written>>

\* DELETE /projections/simulations/:id
DeleteSimulation ==
  /\ response = Null
  /\ \E simulationId \in RequestIds :
       IF ~Exists(simulationId)
       THEN /\ response' = [op |-> "delete", status |-> 404, simulationId |-> simulationId]
            /\ UNCHANGED <<simulations, saved>>
       ELSE /\ simulations' = deleteSimulation(simulations, simulationId)
            /\ saved' = [saved EXCEPT ![simulationId] = Null]
            /\ response' = [op |-> "delete", status |-> 204, simulationId |-> simulationId]
  /\ UNCHANGED <<now, db, simArgs, simResult, simPrev, cache, tagIndex, inflight, written>>

\* GET /projections/client/:id/stats
GetStats ==
  /\ response = Null
  /\ \E id \in ClientIds :
       \E found \in FindManyOrders(ClientRows(simulations, id), "desc") :
         response' = [op |-> "stats", status |-> 200, clientId |-> id,
                      data |-> getClientSimulationStats(found, now)]
  /\ UNCHANGED <<now, db, simulations, saved, simArgs, simResult, simPrev, cache, tagIndex, inflight, written>>

NextHistory ==
  \/ Elapse
  \/ ChangeClient
  \/ PostSave
  \/ PostSaveWithMetadata
  \/ GetHistory
  \/ PostCompare
  \/ DeleteSimulation
  \/ GetStats
  \/ Deliver

SpecHistory == InitHistory /\ [][NextHistory]_vars

\* the history after a first simulation of client c1 was saved and deleted
InitMetadata ==
  /\ now = Date(EndYearDefault, 1, 1)
  /\ db \in HistoryClients
  /\ response = Null
  /\ simulations = <<OtherRow>>
  /\ saved = <<Null>>
  /\ cache = <<>>
  /\ tagIndex = <<>>
  /\ inflight = <<>>
  /\ written = <<>>
  /\ simArgs = Null
  /\ simResult = Null
  /\ simPrev = Null

NextMetadata ==
  \/ Elapse
  \/ ChangeClient
  \/ PostSave
  \/ PostSaveWithMetadata
  \/ PutMetadata
  \/ GetHistory
  \/ Deliver

SpecMetadata == InitMetadata /\ [][NextMetadata]_vars

-----------------------------------------------------------------------------
(* Properties of simulateWealthCurve, checked under Spec *)

Called == simResult # Null
LastPoint(points) == points[Len(points)]
Fires(e, point) == \E j \in 1..Len(point.events) : point.events[j] = e
ArgEvents == {simArgs.events[j] : j \in 1..Len(simArgs.events)}

\* C1: a call with startYear <= endYear returns exactly
\* 12 * (endYear - startYear + 1) points, one per calendar month, in
\* ascending order from (startYear, 1) to (endYear, 12), whatever the events.
C1_PointCount ==
  (Called /\ simArgs.startYear <= simArgs.endYear) =>
    /\ Len(simResult) = 12 * (simArgs.endYear - simArgs.startYear + 1)
    /\ \A i \in 1..Len(simResult) :
         /\ simResult[i].year = simArgs.startYear + ((i - 1) \div 12)
         /\ simResult[i].month = ((i - 1) % 12) + 1

C1_Witness ==
  /\ Called
  /\ simArgs.startYear < simArgs.endYear
  /\ \E i \in 1..Len(simResult) : simResult[i].events # <<>>

\* round2(c * (1 + rate/12)) for a value c of whole cents
RoundedGrowth(c, rate) ==
  LET fn == FNum(rate)
      fd == FDen(rate)
  IN  (c \div fd) * fn + ((2 * (c % fd) * fn + fd) \div (2 * fd))

PointEventSum(point) == SumValues(point.events, 1)
PrevValue(i) == IF i = 1 THEN simArgs.initialValue ELSE simResult[i - 1].projectedValue

\* C3 as stated: the value carried into the next month is the rounded
\* projectedValue, projectedValue(k+1) = round2(projectedValue(k) * (1 + rate/12)
\* + events of month k+1).
C3_CarriesRounded ==
  Called =>
    \A i \in 1..Len(simResult) :
      simResult[i].projectedValue =
        RoundedGrowth(PrevValue(i), simArgs.annualRate) + PointEventSum(simResult[i])

\* c = floor(n / p + 1/2), for the fraction u = n / p
IsRound2(c, u) ==
  /\ BigGeq(BigScale(u.n, 2), BigMul(u.p, 2 * c - 1))
  /\ ~BigGeq(BigScale(u.n, 2), BigMul(u.p, 2 * c + 1))

\* the unrounded value u(i) = u(i-1) * (1 + rate/12) + events(i), u(0) = initialValue,
\* as the fraction n / p, compared with point i
UnroundedStep(st, i) ==
  LET p2 == BigScale(st.u.p, FDen(simArgs.annualRate))
      u == [n |-> BigAdd(BigScale(st.u.n, FNum(simArgs.annualRate)),
                         BigMul(p2, PointEventSum(simResult[i]))),
            p |-> p2]
  IN  [u |-> u, ok |-> st.ok /\ IsRound2(simResult[i].projectedValue, u)]

\* C3 (amended): only the reported projectedValue is rounded; the value
\* carried from month to month is the unrounded one, so every
\* projectedValue(k) = round2(u(k)) with u(k+1) = u(k) * (1 + rate/12) + events
\* of month k+1 and u(0) = initialValue.
C3_RoundsOutputOnly ==
  Called =>
    FoldRange(UnroundedStep,
              [u |-> [n |-> BigMul(BigOne, simArgs.initialValue), p |-> BigOne], ok |-> TRUE],
              1, Len(simResult) + 1).ok

C3_Witness == Called /\ ~C3_CarriesRounded

\* C4: with no events and startYear = endYear, the final value is
\* round(initialValue * (1 + annualRate/12)^12, 2); 10000 at 0.04 gives 12
\* points and 10407.42.
C4_ClosedForm ==
  (Called /\ simArgs.events = <<>> /\ simArgs.startYear = simArgs.endYear) =>
    /\ Len(simResult) = 12
    /\ IsRound2(LastPoint(simResult).projectedValue,
                [n |-> BigMul(FoldRange(LAMBDA a, i : BigScale(a, FNum(simArgs.annualRate)),
                                        BigOne, 0, 12),
                              simArgs.initialValue),
                 p |-> FoldRange(LAMBDA a, i : BigScale(a, FDen(simArgs.annualRate)),
                                 BigOne, 0, 12)])
    /\ (simArgs.initialValue = 1000000 /\ simArgs.annualRate = DefaultRate) =>
         LastPoint(simResult).projectedValue = 1040742

C4_Witness ==
  /\ Called /\ simArgs.events = <<>> /\ simArgs.startYear = simArgs.endYear
  /\ simArgs.initialValue = 1000000 /\ simArgs.annualRate = DefaultRate
  /\ LastPoint(simResult).projectedValue = 1040742

MonthIndex(year, month) == year * 12 + (month - 1)
DateMonthIndex(d) == MonthIndex(getFullYear(d), getMonth(d) + 1)
PointMonthIndex(point) == MonthIndex(point.year, point.month)
InHorizon(d) == getFullYear(d) >= simArgs.startYear /\ getFullYear(d) <= simArgs.endYear
EndOf(e) == IF e.endDate = NoDate THEN HorizonEnd ELSE e.endDate

\* C5: an event that is 'once' (or has no recognised frequency) and starts
\* on any day of a month of the horizon is applied in exactly the month whose
\* year and month are those of startDate, and in no other month.
C5_OnceInStartMonth ==
  Called =>
    \A e \in ArgEvents :
      (/\ e.frequency \in {"once", None}
       /\ e.startDate # NoDate /\ InHorizon(e.startDate)
       /\ EndOf(e) >= e.startDate) =>
        \A i \in 1..Len(simResult) :
          Fires(e, simResult[i]) <=> PointMonthIndex(simResult[i]) = DateMonthIndex(e.startDate)

\* C6: a 'monthly' event is applied in every simulated month within
\* [startDate, endDate], the calendar month that contains startDate included,
\* and in no month outside the window.
C6_MonthlyWindow ==
  Called =>
    \A e \in ArgEvents :
      (e.frequency = "monthly" /\ e.startDate # NoDate) =>
        \A i \in 1..Len(simResult) :
          Fires(e, simResult[i]) <=>
            /\ PointMonthIndex(simResult[i]) >= DateMonthIndex(e.startDate)
            /\ Date(simResult[i].year, simResult[i].month - 1, 1) <= EndOf(e)

\* C7: a 'yearly' event is applied exactly once in every simulated year from
\* the year of startDate (included) up to endDate, always in the calendar
\* month of startDate, and in no other month.
C7_YearlyFromStartYear ==
  Called =>
    \A e \in ArgEvents :
      (e.frequency = "yearly" /\ e.startDate # NoDate) =>
        \A i \in 1..Len(simResult) :
          Fires(e, simResult[i]) <=>
            /\ simResult[i].month = getMonth(e.startDate) + 1
            /\ simResult[i].year >= getFullYear(e.startDate)
            /\ Date(simResult[i].year, simResult[i].month - 1, 1) <= EndOf(e)

\* C8: two calls with identical arguments return identical point sequences,
\* whatever the wall-clock time of the calls, also when an event has no
\* startDate or no endDate.
C8_Deterministic == (Called /\ simPrev # Null) => simPrev = simResult

-----------------------------------------------------------------------------
(* Properties of the replies, checked under SpecClient *)

Replied(op) == response # Null /\ response.op = op /\ response.status = 200

\* the WealthProjection the handler of the current reply built
Built == response.projection

\* C2: every projection built by createClientProjection, POST /projections/simulate
\* or simulateSuggestionImpact reports as finalValue the projectedValue of its last
\* point, whatever that value is, and as totalReturn finalValue - initialValue
C2_FinalIsLastPoint ==
  (Replied("annual") \/ Replied("simulate") \/ Replied("impact")) =>
    /\ Len(Built.projectionPoints) > 0 =>
         response.data.finalValue =
           Built.projectionPoints[Len(Built.projectionPoints)].projectedValue
    /\ response.data.totalReturn = response.data.finalValue - Built.initialValue

\* the points of the analysed projection in the goal's target year and month
PointsAtTarget(goal, projection) ==
  SelectSeq(projection.projectionPoints,
            LAMBDA pt : /\ pt.year = getFullYear(goal.targetDate)
                        /\ pt.month = getMonth(goal.targetDate) + 1)

\* C9: each analysed goal has gap = amount - v and feasible = (gap <= 0), v being
\* the value of the point in the target year and month whenever there is one
\* (0 included), and the projection's finalValue only when there is none
C9_GapAtTargetPoint ==
  Replied("suggestions") =>
    \A j \in 1..Len(response.data.goals) :
      LET goal == response.data.goals[j]
          at == PointsAtTarget(goal, response.data.currentProjection)
          v == IF Len(at) > 0 THEN at[1].projectedValue
               ELSE response.data.currentProjection.finalValue
      IN  /\ goal.gap = goal.amount - v
          /\ goal.feasible = (goal.gap <= 0)

\* the suggestions of one type emitted for one goal
Emitted(type, goal) ==
  SelectSeq(response.data.suggestions, LAMBDA x : x.id = <<type, goal.id>>)

\* C10: for a goal with gap > 0 there is exactly one extend_timeline and one
\* reduce_goal suggestion, and one increase_contribution exactly when
\* monthsUntilTarget > 0, its monthlyAmount being ceil(gap / monthsUntilTarget);
\* for a goal with gap <= 0 there is no goal-derived suggestion
C10_GoalSuggestions ==
  Replied("suggestions") =>
    \A j \in 1..Len(response.data.goals) :
      LET goal == response.data.goals[j]
          months == calculateMonthsUntilDate(goal.targetDate, response.at)
          increase == Emitted("increase_contribution", goal)
      IN  /\ Len(Emitted("extend_timeline", goal)) = IF goal.gap > 0 THEN 1 ELSE 0
          /\ Len(Emitted("reduce_goal", goal)) = IF goal.gap > 0 THEN 1 ELSE 0
          /\ Len(increase) = IF goal.gap > 0 /\ months > 0 THEN 1 ELSE 0
          /\ \A k \in 1..Len(increase) :
               LET units == increase[k].impact.monthlyAmount \div 100
               IN  /\ increase[k].impact.monthlyAmount = 100 * units
                   /\ 100 * units * months >= goal.gap
                   /\ 100 * (units - 1) * months < goal.gap

\* a reply with a goal short of its target, months remaining, and a monthly
\* amount that had to be rounded up
C10_Witness ==
  /\ Replied("suggestions")
  /\ \E j \in 1..Len(response.data.goals) :
       LET goal == response.data.goals[j]
           months == calculateMonthsUntilDate(goal.targetDate, response.at)
           increase == Emitted("increase_contribution", goal)
       IN  /\ goal.gap > 0
           /\ months > 1
           /\ Len(increase) = 1
           /\ 100 * (increase[1].impact.monthlyAmount \div 100) * months > goal.gap
           /\ Len(Emitted("extend_timeline", goal)) = 1

\* the analysed goal a goal-derived suggestion was pushed for
GoalDerived(x) == Len(x.id) = 2
GoalOf(x) ==
  CHOOSE goal \in {response.data.goals[j] : j \in 1..Len(response.data.goals)} :
    goal.id = x.id[2]

\* the priority the gap thresholds give: 'high' above 100000, 'medium' above
\* 50000, 'low' otherwise (amounts in cents)
ByGap(gap) == IF gap > HighGap THEN "high" ELSE IF gap > MediumGap THEN "medium" ELSE "low"

\* C11 (as stated): every suggestion for an infeasible goal, increase_contribution,
\* extend_timeline and reduce_goal alike, has the priority its goal's gap gives;
\* adjust_allocation always has priority 'medium'
C11_AllByGap ==
  Replied("suggestions") =>
    \A k \in 1..Len(response.data.suggestions) :
      LET x == response.data.suggestions[k]
      IN  x.priority = IF GoalDerived(x) THEN ByGap(GoalOf(x).gap) ELSE "medium"

\* C11 (amended): only increase_contribution takes its priority from the goal's
\* gap; extend_timeline is always 'medium', reduce_goal always 'low' and
\* adjust_allocation always 'medium'
C11_ContributionByGap ==
  Replied("suggestions") =>
    \A k \in 1..Len(response.data.suggestions) :
      LET x == response.data.suggestions[k]
      IN  x.priority =
            CASE x.type = "increase_contribution" -> ByGap(GoalOf(x).gap)
              [] x.type = "extend_timeline" -> "medium"
              [] x.type = "reduce_goal" -> "low"
              [] x.type = "adjust_allocation" -> "medium"

\* a reply for a goal whose gap lies in the 'medium' range, with all three
\* goal-derived suggestions and the allocation suggestion
C11_Witness ==
  /\ Replied("suggestions")
  /\ \E j \in 1..Len(response.data.goals) :
       LET goal == response.data.goals[j]
       IN  /\ goal.gap > MediumGap
           /\ goal.gap <= HighGap
           /\ Len(Emitted("increase_contribution", goal)) = 1
           /\ Len(Emitted("extend_timeline", goal)) = 1
           /\ Len(Emitted("reduce_goal", goal)) = 1
  /\ \E k \in 1..Len(response.data.suggestions) :
       response.data.suggestions[k].type = "adjust_allocation"

\* priorityOrder of the comparator
PriorityOrder(x) == CASE x.priority = "high" -> 3 [] x.priority = "medium" -> 2
                      [] x.priority = "low" -> 1

\* the position a suggestion was pushed at: goal by goal (contribution,
\* timeline, goal reduction), the allocation suggestion last
PushOrder(x) ==
  IF GoalDerived(x)
  THEN 4 * x.id[2] + (CASE x.type = "increase_contribution" -> 1
                        [] x.type = "extend_timeline" -> 2
                        [] x.type = "reduce_goal" -> 3)
  ELSE 4 * (Len(response.data.goals) + 1)

WithMonthlyEvent(m, clock) ==
  Projection(WalletValue(db), DefaultRate,
             simulateWealthCurve(WalletValue(db),
                                 Append(ToProjectionEvents(db.events, clock),
                                        [type |-> "Aporte Adicional", value |-> m,
                                         frequency |-> "monthly", startDate |-> clock,
                                         endDate |-> HorizonEnd]),
                                 DefaultRate, getFullYear(clock), EndYearDefault, clock))

HasMonthlyAmount(s) ==
  s.type = "increase_contribution" /\ "monthlyAmount" \in DOMAIN s.impact

\* C13 (as stated): for increase_contribution with monthlyAmount m the impact
\* projection is the simulation of the stored events plus exactly one monthly
\* event of value m; for every other type it equals createClientProjection at
\* the default rate and the improvement is 0
C13_ImpactAnyAmount ==
  Replied("impact") =>
    IF HasMonthlyAmount(response.suggestion)
    THEN Built = WithMonthlyEvent(response.suggestion.impact.monthlyAmount, response.at)
    ELSE Built = response.original /\ response.data.improvement = 0

\* C13 (amended): the monthly event is added for increase_contribution with a
\* monthlyAmount m other than 0; with m = 0 or absent, and for every other type,
\* the impact projection equals createClientProjection at the default rate
\* (points, finalValue, totalReturn) and the improvement is 0
C13_ImpactNonZeroAmount ==
  Replied("impact") =>
    IF /\ HasMonthlyAmount(response.suggestion)
       /\ response.suggestion.impact.monthlyAmount # 0
    THEN Built = WithMonthlyEvent(response.suggestion.impact.monthlyAmount, response.at)
    ELSE /\ Built = response.original
         /\ Built = createClientProjection(db, DefaultRate, response.at)
         /\ response.data.improvement = 0

\* an increase_contribution reply whose monthly event raised the final value
C13_Witness ==
  /\ Replied("impact")
  /\ HasMonthlyAmount(response.suggestion)
  /\ response.suggestion.impact.monthlyAmount > 0
  /\ response.data.improvement > 0
  /\ db.events # <<>>

-----------------------------------------------------------------------------
(* Properties of the simulation history, checked under SpecMetadata and
   SpecHistory *)

\* the simulations of the current history reply
Listed == response.data.simulations

\* the stored row of an id
RowOf(simulationId) ==
  CHOOSE sim \in {simulations[j] : j \in 1..Len(simulations)} : sim.id = simulationId

\* the rows client c1 saved through the requests
SavedRows == SelectSeq(simulations, LAMBDA sim : sim.id >= 1)

\* C14: a saved simulation is a snapshot: whatever metadata updates, other saves
\* and changes of the client's data came later, the results.finalValue and
\* results.totalReturn listed for it by getClientSimulations are those of the
\* projection handed to save, and so are the stored payload's
C14_Snapshot ==
  /\ \A j \in 1..Len(SavedRows) :
       /\ SavedRows[j].payload.finalValue = saved[SavedRows[j].id].finalValue
       /\ SavedRows[j].payload.totalReturn = saved[SavedRows[j].id].totalReturn
  /\ Replied("history") =>
       \A k \in 1..Len(Listed) :
         /\ Listed[k].results.finalValue = saved[Listed[k].id].finalValue
         /\ Listed[k].results.totalReturn = saved[Listed[k].id].totalReturn

\* a listing that holds a simulation saved without metadata whose metadata was
\* updated later, another save after it, and client data that now project to a
\* different final value
C14_Witness ==
  /\ Replied("history")
  /\ \E k \in 1..Len(Listed) :
       /\ "updatedAt" \in DOMAIN MetadataOf(RowOf(Listed[k].id).payload)
       /\ "results" \notin DOMAIN MetadataOf(RowOf(Listed[k].id).payload)
       /\ Listed[k].id < Len(saved)
       /\ Listed[k].results.finalValue
            # createClientProjection(db, DefaultRate, now).finalValue

\* the rows of client c1, in insertion order
OwnRows == SelectSeq(simulations, LAMBDA sim : sim.clientId = "c1")

\* p arranges the rows of c1 by createdAt in the given direction
ByCreatedAt(p, direction) ==
  \A i, j \in 1..Len(OwnRows) :
    i < j => IF direction = "asc"
             THEN OwnRows[p[i]].createdAt <= OwnRows[p[j]].createdAt
             ELSE OwnRows[p[i]].createdAt >= OwnRows[p[j]].createdAt

\* positions (page-1)*limit .. page*limit-1, counted from 0, that exist
PagePositions(query) ==
  {i \in 1..Len(OwnRows) :
     i > (query.page - 1) * query.limit /\ i <= query.page * query.limit}

ValueKey(sim, sortBy) ==
  IF sortBy = "finalValue" THEN sim.results.finalValue ELSE sim.results.totalReturn

\* C15: without tags, getClientSimulations returns exactly the simulations at
\* positions (page-1)*limit .. page*limit-1 of the client's simulations ordered by
\* createdAt (in sortOrder when sortBy = createdAt, descending otherwise); for
\* sortBy finalValue or totalReturn that page is then reordered by the value
\* in sortOrder
C15_PageThenSort ==
  (Replied("history") /\ "tags" \notin DOMAIN response.query) =>
    LET query == response.query
        direction == IF query.sortBy = "createdAt" THEN query.sortOrder ELSE "desc"
    IN  /\ response.data.pagination.total = Len(OwnRows)
        /\ \E p \in Permutations(1..Len(OwnRows)) :
             /\ ByCreatedAt(p, direction)
             /\ Len(Listed) = Cardinality(PagePositions(query))
             /\ IF query.sortBy = "createdAt"
                THEN \A k \in 1..Len(Listed) :
                       Listed[k].id = OwnRows[p[(query.page - 1) * query.limit + k]].id
                ELSE /\ {Listed[k].id : k \in 1..Len(Listed)}
                          = {OwnRows[p[i]].id : i \in PagePositions(query)}
                     /\ \A k \in 1..(Len(Listed) - 1) :
                          IF query.sortOrder = "asc"
                          THEN ValueKey(Listed[k], query.sortBy)
                                 <= ValueKey(Listed[k + 1], query.sortBy)
                          ELSE ValueKey(Listed[k], query.sortBy)
                                 >= ValueKey(Listed[k + 1], query.sortBy)

\* the second page of a listing by finalValue, descending, that holds a value
\* larger than one left on the first page; the two simulations of the first
\* page are in a different order by date than by value
C15_Witness ==
  /\ Replied("history")
  /\ response.query.sortBy = "finalValue"
  /\ response.query.page = 2
  /\ Len(Listed) = 1
  /\ \E j \in 1..Len(OwnRows) :
       /\ OwnRows[j].id # Listed[1].id
       /\ OwnRows[j].payload.finalValue < Listed[1].results.finalValue
  /\ \E i, j \in 1..Len(OwnRows) :
       /\ OwnRows[i].createdAt < OwnRows[j].createdAt
       /\ OwnRows[i].payload.finalValue > OwnRows[j].payload.finalValue
       /\ OwnRows[i].id # Listed[1].id
       /\ OwnRows[j].id # Listed[1].id

\* the ids of a compare request that name a stored simulation
Loaded == {id \in {response.simulationIds[j] : j \in 1..Len(response.simulationIds)} :
             Exists(id)}

\* C16: a comparison request with fewer than 2 or more than 5 simulation ids fails
\* with a validation error and computes no comparison; a request with 2 to 5 ids
\* of saved simulations is accepted and returns a comparison
C16_CompareBounds ==
  (response # Null /\ response.op = "compare") =>
    LET n == Len(response.simulationIds)
    IN  /\ (n < 2 \/ n > 5) => (response.status = 400 /\ "data" \notin DOMAIN response)
        /\ (n >= 2 /\ n <= 5 /\ Cardinality(Loaded) = Cardinality({response.simulationIds[j] : j \in 1..n}))
             => (response.status = 200 /\ "comparison" \in DOMAIN response.data)

\* a request of six ids, all of saved simulations, that was rejected
C16_Witness ==
  /\ response # Null
  /\ response.op = "compare"
  /\ Len(response.simulationIds) > 5
  /\ Cardinality(Loaded) = 3
  /\ response.status = 400

\* the simulations of the current compare reply
Compared == response.data.simulations
FinalValues == {Compared[j].results.finalValue : j \in 1..Len(Compared)}

\* performance is the entry of one of the compared simulations
EntryOf(performance) ==
  \E j \in 1..Len(Compared) :
    /\ Compared[j].id = performance.simulationId
    /\ Compared[j].results.finalValue = performance.finalValue
    /\ Compared[j].results.totalReturn = performance.totalReturn

\* average, a quotient num / den, is the mean of the given values
MeanOf(average, values) ==
  average.num * Len(values) = average.den * Sum(values)

\* C17: over the loaded simulations, bestPerformance is a simulation of maximal
\* finalValue and worstPerformance one of minimal finalValue, each with that
\* simulation's id and totalReturn; averageFinalValue and averageReturn are the
\* arithmetic means; worst.finalValue <= averageFinalValue <= best.finalValue
C17_BestWorstAverage ==
  Replied("compare") =>
    LET c == response.data.comparison
    IN  /\ {Compared[j].id : j \in 1..Len(Compared)} = Loaded
        /\ Len(Compared) = Cardinality(Loaded)
        /\ EntryOf(c.bestPerformance)
        /\ EntryOf(c.worstPerformance)
        /\ \A v \in FinalValues : v <= c.bestPerformance.finalValue
        /\ \A v \in FinalValues : v >= c.worstPerformance.finalValue
        /\ MeanOf(c.averageFinalValue,
                  [j \in 1..Len(Compared) |-> Compared[j].results.finalValue])
        /\ MeanOf(c.averageReturn,
                  [j \in 1..Len(Compared) |-> Compared[j].results.totalReturn])
        /\ c.averageFinalValue.den > 0
        /\ c.worstPerformance.finalValue * c.averageFinalValue.den <= c.averageFinalValue.num
        /\ c.averageFinalValue.num <= c.bestPerformance.finalValue * c.averageFinalValue.den

\* a comparison of two simulations of different final value, the better one
\* loaded second
C17_Witness ==
  /\ Replied("compare")
  /\ Len(Compared) = 2
  /\ Compared[1].results.finalValue < Compared[2].results.finalValue
  /\ response.data.comparison.bestPerformance.simulationId = Compared[2].id

\* the step is the handling of a request of the given kind
Handles(op) == response = Null /\ response' # Null /\ response'.op = op

\* field f is the same, or missing alike, in records a and b
SameField(a, b, f) ==
  /\ (f \in DOMAIN a) = (f \in DOMAIN b)
  /\ (f \in DOMAIN a) => a[f] = b[f]

C19_DeleteExactlyOne ==
  /\ [][Handles("delete") =>
          IF Exists(response'.simulationId)
          THEN /\ response'.status = 204
               /\ simulations' =
                    SelectSeq(simulations, LAMBDA sim : sim.id # response'.simulationId)
               /\ Len(simulations') = Len(simulations) - 1
          ELSE /\ response'.status = 404
               /\ simulations' = simulations]_vars
  /\ [](Replied("history") =>
          \A k \in 1..Len(Listed) : Exists(Listed[k].id) /\ saved[Listed[k].id] # Null)

\* the store just after one of three simulations of the client was deleted
C19_Witness ==
  /\ response # Null
  /\ response.op = "delete"
  /\ response.status = 204
  /\ ~Exists(response.simulationId)
  /\ Len(OwnRows) = 2

\* the rows stored for the client of the current stats reply
StatRows == SelectSeq(simulations, LAMBDA sim : sim.clientId = response.clientId)

\* C20: after any saves and deletes, getClientSimulationStats returns
\* totalSimulations equal to the number of simulations stored for the client;
\* bestSimulation and recentActivity.lastSimulation are null exactly when that
\* number is 0, and then averageFinalValue is 0; otherwise bestSimulation is a
\* simulation of the client with the largest finalValue and lastSimulation is
\* the newest createdAt
C20_Stats ==
  Replied("stats") =>
    LET stats == response.data
    IN  /\ stats.totalSimulations = Len(StatRows)
        /\ (stats.bestSimulation = Null) = (Len(StatRows) = 0)
        /\ (stats.recentActivity.lastSimulation = NoDate) = (Len(StatRows) = 0)
        /\ Len(StatRows) = 0 => stats.averageFinalValue.num = 0
        /\ Len(StatRows) > 0 =>
             /\ \E j \in 1..Len(StatRows) :
                  /\ StatRows[j].id = stats.bestSimulation.id
                  /\ StatRows[j].payload.finalValue = stats.bestSimulation.finalValue
             /\ \A j \in 1..Len(StatRows) :
                  /\ StatRows[j].payload.finalValue <= stats.bestSimulation.finalValue
                  /\ StatRows[j].createdAt <= stats.recentActivity.lastSimulation
             /\ \E j \in 1..Len(StatRows) :
                  StatRows[j].createdAt = stats.recentActivity.lastSimulation

\* statistics of client c1 over two simulations left after a delete, the best
\* of them not the newest
C20_Witness ==
  /\ Replied("stats")
  /\ response.clientId = "c1"
  /\ response.data.totalSimulations = 2
  /\ \E id \in 1..Len(saved) : saved[id] = Null
  /\ \E j \in 1..Len(StatRows) :
       /\ StatRows[j].id = response.data.bestSimulation.id
       /\ StatRows[j].createdAt < response.data.recentActivity.lastSimulation

-----------------------------------------------------------------------------
(* CacheService *)

\* A Map is a function whose domain is the set of keys it has.
Put(m, k, v) == [x \in DOMAIN m \cup {k} |-> IF x = k THEN v ELSE m[x]]

Remove(m, ks) == [x \in DOMAIN m \ ks |-> m[x]]

\* private defaultTTL, in milliseconds
defaultTTL == 5 * 60 * 1000

\* An optional ttl argument is <<>> when it is not passed and <<ttl>> when it is.
NoTtl == <<>>

\* Date.now() + (ttl || this.defaultTTL): a ttl of 0 is falsy
Expires(ttl, clock) ==
  clock + (IF ttl # NoTtl /\ ttl[1] # 0 THEN ttl[1] ELSE defaultTTL)

\* get(key): the data, or null; an entry found expired is deleted
get(c, key, clock) ==
  IF key \notin DOMAIN c THEN [cache |-> c, result |-> Null]
  ELSE IF clock > c[key].expires
       THEN [cache |-> Remove(c, {key}), result |-> Null]
       ELSE [cache |-> c, result |-> c[key].data]

\* set(key, data, ttl)
set(c, key, data, ttl, clock) ==
  Put(c, key, [data |-> data, expires |-> Expires(ttl, clock)])

\* delete(key): whether the key was there
delete(c, key) == [cache |-> Remove(c, {key}), result |-> key \in DOMAIN c]

\* clear(): the entries go, the tag index stays
clear(c) == <<>>

\* cleanup(): deletes the expired entries and returns how many there were
cleanup(c, clock) ==
  [cache |-> Remove(c, {k \in DOMAIN c : clock > c[k].expires}),
   result |-> Cardinality({k \in DOMAIN c : clock > c[k].expires})]

\* setWithTags(key, data, tags, ttl): set, then the key joins each tag's Set
setWithTags(c, t, key, data, tagList, ttl, clock) ==
  [cache |-> set(c, key, data, ttl, clock),
   tags |-> [x \in DOMAIN t \cup {tagList[i] : i \in 1..Len(tagList)} |->
               IF \E i \in 1..Len(tagList) : tagList[i] = x
               THEN (IF x \in DOMAIN t THEN t[x] ELSE {}) \cup {key}
               ELSE t[x]]]

\* a variant of invalidateTag that counts the keys of the tag
invalidateTagCountingKeys(c, t, tag) ==
  IF tag \notin DOMAIN t THEN [cache |-> c, tags |-> t, result |-> 0]
  ELSE [cache |-> Remove(c, t[tag]),
        tags |-> Remove(t, {tag}),
        result |-> Cardinality(t[tag])]

\* invalidateTag(tag): deletes the entry of every key in the tag's Set, counts
\* the deletions that found an entry, and forgets the tag
invalidateTag(c, t, tag) ==
  IF tag \notin DOMAIN t THEN [cache |-> c, tags |-> t, result |-> 0]
  ELSE [cache |-> Remove(c, t[tag]),
        tags |-> Remove(t, {tag}),
        result |-> Cardinality(t[tag] \cap DOMAIN c)]

-----------------------------------------------------------------------------
(* Calls of the cache; now counts milliseconds *)

CacheKeys == {"k1", "k2"}

CacheTags == {"t1", "t2"}

TagLists == {<<"t1">>, <<"t2">>, <<"t1", "t2">>}

\* no ttl, 0 ms, 1 ms
Ttls == {NoTtl, <<0>>, <<1>>}

\* the instants at which calls are made
CacheClock == {0, 1, defaultTTL, defaultTTL + 1}

\* the two callers of getOrSet and what their producers resolve to
Callers == {"a", "b"}

Produced(caller) == [value |-> caller]

InitCache ==
  /\ now = 0
  /\ cache = <<>>
  /\ tagIndex = <<>>
  /\ inflight = <<>>
  /\ written = <<>>
  /\ response = Null
  /\ db = Null
  /\ simArgs = Null
  /\ simResult = Null
  /\ simPrev = Null
  /\ simulations = <<>>
  /\ saved = <<>>

Lapse ==
  /\ \E t \in CacheClock : t > now /\ now' = t
  /\ UNCHANGED <<cache, tagIndex, inflight, written, response, db, simArgs,
                 simResult, simPrev, simulations, saved>>

Get ==
  /\ \E key \in CacheKeys :
       /\ cache' = get(cache, key, now).cache
       /\ response' = [op |-> "get", key |-> key, at |-> now,
                       result |-> get(cache, key, now).result]
  /\ UNCHANGED <<now, tagIndex, inflight, written, db, simArgs, simResult,
                 simPrev, simulations, saved>>

\* what written keeps of a set
Written(data, ttl, tagList, clock) ==
  [data |-> data, ttl |-> ttl, tags |-> tagList, at |-> clock]

Set ==
  /\ \E key \in CacheKeys, ttl \in Ttls :
       /\ cache' = set(cache, key, [value |-> "plain"], ttl, now)
       /\ written' = Put(written, key,
                         Written([value |-> "plain"], ttl, <<>>, now))
       /\ response' = [op |-> "set", key |-> key, at |-> now]
  /\ UNCHANGED <<now, tagIndex, inflight, db, simArgs, simResult, simPrev,
                 simulations, saved>>

SetWithTags ==
  /\ \E key \in CacheKeys, tagList \in TagLists, ttl \in {NoTtl, <<1>>} :
       /\ cache' = setWithTags(cache, tagIndex, key, [value |-> "tagged"],
                               tagList, ttl, now).cache
       /\ tagIndex' = setWithTags(cache, tagIndex, key, [value |-> "tagged"],
                                  tagList, ttl, now).tags
       /\ written' = Put(written, key,
                         Written([value |-> "tagged"], ttl, tagList, now))
       /\ response' = [op |-> "setWithTags", key |-> key, at |-> now]
  /\ UNCHANGED <<now, inflight, db, simArgs, simResult, simPrev, simulations,
                 saved>>

Delete ==
  /\ \E key \in CacheKeys :
       /\ cache' = delete(cache, key).cache
       /\ written' = Remove(written, {key})
       /\ response' = [op |-> "delete", key |-> key, at |-> now,
                       result |-> delete(cache, key).result]
  /\ UNCHANGED <<now, tagIndex, inflight, db, simArgs, simResult, simPrev,
                 simulations, saved>>

Clear ==
  /\ cache' = clear(cache)
  /\ written' = <<>>
  /\ response' = [op |-> "clear", at |-> now]
  /\ UNCHANGED <<now, tagIndex, inflight, db, simArgs, simResult, simPrev,
                 simulations, saved>>

\* the interval timer fires
Cleanup ==
  /\ cache' = cleanup(cache, now).cache
  /\ response' = [op |-> "cleanup", at |-> now,
                  result |-> cleanup(cache, now).result]
  /\ UNCHANGED <<now, tagIndex, inflight, written, db, simArgs, simResult,
                 simPrev, simulations, saved>>

InvalidateTag ==
  /\ \E tag \in CacheTags :
       /\ cache' = invalidateTag(cache, tagIndex, tag).cache
       /\ tagIndex' = invalidateTag(cache, tagIndex, tag).tags
       /\ written' = [k \in DOMAIN written \cap
                              DOMAIN invalidateTag(cache, tagIndex, tag).cache
                        |-> written[k]]
       /\ response' = [op |-> "invalidateTag", tag |-> tag, at |-> now,
                       result |-> invalidateTag(cache, tagIndex, tag).result]
  /\ UNCHANGED <<now, inflight, db, simArgs, simResult, simPrev, simulations,
                 saved>>

NextCache ==
  \/ Lapse
  \/ Get
  \/ Set
  \/ SetWithTags
  \/ Delete
  \/ Clear
  \/ Cleanup
  \/ InvalidateTag

SpecCache == InitCache /\ [][NextCache]_vars

-----------------------------------------------------------------------------
(* getOrSet: the caller is suspended at `await fn()` between its get and its set *)

\* a variant of the continuation that keeps an entry another call stored
storeResultIfAbsent(c, key, result, ttl, clock) ==
  IF key \in DOMAIN c THEN c ELSE set(c, key, result, ttl, clock)

\* this.set(key, result, ttl) once fn has resolved
storeResult(c, key, result, ttl, clock) == set(c, key, result, ttl, clock)

\* getOrSet up to its await: a hit returns the cached data, a miss calls fn
GetOrSetCall ==
  /\ \E caller \in Callers \ DOMAIN inflight, key \in CacheKeys, ttl \in Ttls :
       /\ cache' = get(cache, key, now).cache
       /\ IF get(cache, key, now).result # Null
          THEN /\ response' = [op |-> "getOrSet", caller |-> caller,
                               key |-> key, at |-> now, produced |-> FALSE,
                               result |-> get(cache, key, now).result]
               /\ UNCHANGED inflight
          ELSE /\ response' = [op |-> "fn", caller |-> caller, key |-> key,
                               at |-> now]
               /\ inflight' = Put(inflight, caller, [key |-> key, ttl |-> ttl])
  /\ UNCHANGED <<now, tagIndex, written, db, simArgs, simResult, simPrev,
                 simulations, saved>>

\* fn resolves: the result is stored and returned
Resolve ==
  /\ \E caller \in DOMAIN inflight :
       /\ cache' = storeResult(cache, inflight[caller].key, Produced(caller),
                               inflight[caller].ttl, now)
       /\ written' = Put(written, inflight[caller].key,
                         Written(Produced(caller), inflight[caller].ttl, <<>>,
                                 now))
       /\ inflight' = Remove(inflight, {caller})
       /\ response' = [op |-> "getOrSet", caller |-> caller,
                       key |-> inflight[caller].key, at |-> now,
                       ttl |-> inflight[caller].ttl, produced |-> TRUE,
                       result |-> Produced(caller)]
  /\ UNCHANGED <<now, tagIndex, db, simArgs, simResult, simPrev, simulations,
                 saved>>

\* fn rejects: the error passes through getOrSet and nothing is stored
Reject ==
  /\ \E caller \in DOMAIN inflight :
       /\ inflight' = Remove(inflight, {caller})
       /\ response' = [op |-> "getOrSet", caller |-> caller,
                       key |-> inflight[caller].key, at |-> now,
                       produced |-> TRUE, error |-> "rejected"]
  /\ UNCHANGED <<now, cache, tagIndex, written, db, simArgs, simResult,
                 simPrev, simulations, saved>>

NextGetOrSet ==
  \/ Lapse
  \/ GetOrSetCall
  \/ Resolve
  \/ Reject
  \/ Delete

SpecGetOrSet == InitCache /\ [][NextGetOrSet]_vars

-----------------------------------------------------------------------------
(* GET /projections/client/:id, answered through cache.getOrSet *)

MsPerDay == 24 * 60 * 60 * 1000

\* the ttl the route passes to getOrSet
ProjectionTTL == 2 * 60 * 1000

ServerStart == Date(FirstYear, 1, 1)

\* Date.now(), counted from the start of the server
DateNow(clock) == (clock - ServerStart) * MsPerDay

\* CacheService.projectionKey: the client id and the serialised params
projectionKey(clientId, params) == <<"projection", clientId, params>>

CachedRates == {DefaultRate, [num |-> 0, den |-> 1]}

\* wallet.totalValue of client c1 before and after POST /wallets
WalletValues == {1000000, 250}

WalletClient(totalValue) ==
  [wallet |-> [totalValue |-> totalValue, allocation |-> <<60, 40>>],
   events |-> <<>>, goals |-> <<>>]

\* client c1 with either wallet, or no client c1
CachedClients == {WalletClient(v) : v \in WalletValues} \cup {Null}

\* the server after two simulations of client c1 were saved and deleted
InitCached ==
  /\ now = ServerStart
  /\ db \in CachedClients
  /\ response = Null
  /\ simulations = <<>>
  /\ saved = <<Null, Null>>
  /\ cache = <<>>
  /\ tagIndex = <<>>
  /\ inflight = <<>>
  /\ written = <<>>
  /\ simArgs = Null
  /\ simResult = Null
  /\ simPrev = Null

\* a day passes
NextDay ==
  /\ response = Null
  /\ now = ServerStart
  /\ now' = now + 1
  /\ UNCHANGED <<db, response, simulations, saved, cache, tagIndex, inflight,
                 written, simArgs, simResult, simPrev>>

\* POST /wallets for client c1: the existing wallet gets another totalValue
UpdateClient ==
  /\ response = Null
  /\ db # Null
  /\ \E v \in WalletValues \ {db.wallet.totalValue} : db' = WalletClient(v)
  /\ UNCHANGED <<now, response, simulations, saved, cache, tagIndex, inflight,
                 written, simArgs, simResult, simPrev>>

\* the handler up to the await in getOrSet: a hit is sent as it is; on a miss
\* createClientProjection reads the client and the handler waits for it
GetProjectionCall ==
  /\ response = Null
  /\ "get" \notin DOMAIN inflight
  /\ \E annualRate \in CachedRates :
       \E cacheKey \in {projectionKey("c1", [annualRate |-> annualRate])} :
         /\ cache' = get(cache, cacheKey, DateNow(now)).cache
         /\ IF get(cache, cacheKey, DateNow(now)).result # Null
            THEN /\ response' = [op |-> "projection", status |-> 200,
                                 produced |-> FALSE, annualRate |-> annualRate,
                                 client |-> db, at |-> now,
                                 data |-> get(cache, cacheKey, DateNow(now)).result]
                 /\ UNCHANGED inflight
            ELSE /\ inflight' =
                      Put(inflight, "get",
                          [key |-> cacheKey, annualRate |-> annualRate,
                           client |-> db, at |-> now,
                           projection |-> createClientProjection(db, annualRate, now)])
                 /\ UNCHANGED response
  /\ UNCHANGED <<now, db, simulations, saved, tagIndex, written, simArgs,
                 simResult, simPrev>>

\* createClientProjection has settled: a projection is stored and sent, the
\* not-found error is answered with 404
GetProjectionResolve ==
  /\ response = Null
  /\ "get" \in DOMAIN inflight
  /\ IF inflight["get"].projection = NotFound
     THEN /\ response' = [op |-> "projection", status |-> 404,
                          produced |-> TRUE,
                          annualRate |-> inflight["get"].annualRate,
                          client |-> inflight["get"].client,
                          at |-> inflight["get"].at]
          /\ UNCHANGED <<cache, written>>
     ELSE /\ cache' = storeResult(cache, inflight["get"].key,
                                  inflight["get"].projection,
                                  <<ProjectionTTL>>, DateNow(now))
          /\ written' = Put(written, inflight["get"].key,
                            Written(inflight["get"].projection,
                                    <<ProjectionTTL>>, <<>>, DateNow(now)))
          /\ response' = [op |-> "projection", status |-> 200,
                          produced |-> TRUE,
                          annualRate |-> inflight["get"].annualRate,
                          client |-> inflight["get"].client,
                          at |-> inflight["get"].at,
                          data |-> inflight["get"].projection]
  /\ inflight' = Remove(inflight, {"get"})
  /\ UNCHANGED <<now, db, simulations, saved, tagIndex, simArgs, simResult,
                 simPrev>>

NextCached ==
  \/ NextDay
  \/ UpdateClient
  \/ GetProjectionCall
  \/ GetProjectionResolve
  \/ PostSave
  \/ PostSaveWithMetadata
  \/ Deliver

SpecCached == InitCached /\ [][NextCached]_vars

-----------------------------------------------------------------------------
(* DELETE /projections/simulations/:id, suspended between findUnique and delete *)

\* the requests that may be in the handler at the same time
Deleters == {"d1", "d2"}

\* the handler up to the result of findUnique: 404 when there is no such row
DeleteFind ==
  /\ response = Null
  /\ \E request \in Deleters \ DOMAIN inflight, simulationId \in RequestIds :
       IF ~Exists(simulationId)
       THEN /\ response' = [op |-> "delete", status |-> 404,
                            simulationId |-> simulationId, request |-> request]
            /\ UNCHANGED inflight
       ELSE /\ inflight' = Put(inflight, request, [simulationId |-> simulationId])
            /\ UNCHANGED response
  /\ UNCHANGED <<now, db, simulations, saved, cache, tagIndex, written, simArgs,
                 simResult, simPrev>>

\* prisma.simulation.delete and the reply: delete throws when the row is no
\* longer there and the catch answers 500
DeleteRemove ==
  /\ response = Null
  /\ \E request \in DOMAIN inflight :
       /\ IF Exists(inflight[request].simulationId)
          THEN /\ simulations' =
                    deleteSimulation(simulations, inflight[request].simulationId)
               /\ saved' = [saved EXCEPT ![inflight[request].simulationId] = Null]
               /\ response' = [op |-> "delete", status |-> 204,
                               simulationId |-> inflight[request].simulationId,
                               request |-> request]
          ELSE /\ response' = [op |-> "delete", status |-> 500,
                               simulationId |-> inflight[request].simulationId,
                               request |-> request]
               /\ UNCHANGED <<simulations, saved>>
       /\ inflight' = Remove(inflight, {request})
  /\ UNCHANGED <<now, db, cache, tagIndex, written, simArgs, simResult, simPrev>>

NextDelete ==
  \/ PostSave
  \/ DeleteFind
  \/ DeleteRemove
  \/ Deliver

SpecDelete == InitHistory /\ [][NextDelete]_vars

-----------------------------------------------------------------------------
(* Properties of the cache *)

\* the set time plus the ttl passed, or plus the default when none is passed
ExpiresAt(ttl, clock) == clock + (IF ttl = NoTtl THEN defaultTTL ELSE ttl[1])

Got == response # Null /\ response.op = "get"

\* C21: get(key) returns the data of the latest set or setWithTags of the key
\* while the time is not past that set's time plus its ttl (plus 5 minutes when
\* no ttl was passed); otherwise, and after a delete or a clear, it returns null
\* and the key is no longer in the map.
C21_GetWithinTtl ==
  Got =>
    IF /\ response.key \in DOMAIN written
       /\ response.at <= ExpiresAt(written[response.key].ttl,
                                   written[response.key].at)
    THEN response.result = written[response.key].data
    ELSE response.result = Null /\ response.key \notin DOMAIN cache

\* a step that is a call of op
CacheCall(op) == now' = now /\ response'.op = op

\* the keys in the Set of a tag
Registered(tag) == IF tag \in DOMAIN tagIndex THEN tagIndex[tag] ELSE {}

\* C22: setWithTags registers its key under each of its tags; invalidateTag(tag)
\* removes the entries of the keys registered under the tag and no others, so a
\* get of such a key returns null, every other entry keeps its data and expiry,
\* and the number returned is the number of entries removed (0 for a tag that
\* has no keys registered).
C22_InvalidateExactly ==
  [][/\ CacheCall("setWithTags") =>
          \A i \in 1..Len(written'[response'.key].tags) :
             response'.key \in tagIndex'[written'[response'.key].tags[i]]
     /\ CacheCall("invalidateTag") =>
          /\ \A k \in Registered(response'.tag) :
                get(cache', k, now).result = Null
          /\ \A k \in DOMAIN cache \ Registered(response'.tag) :
                k \in DOMAIN cache' /\ cache'[k] = cache[k]
          /\ DOMAIN cache' \subseteq DOMAIN cache
          /\ response'.result = Cardinality(DOMAIN cache \ DOMAIN cache')
          /\ Registered(response'.tag) = {} => response'.result = 0]_vars

\* an invalidateTag that removed one entry, left another and left the other tag
C22_Witness ==
  /\ response # Null
  /\ response.op = "invalidateTag"
  /\ response.result = 1
  /\ DOMAIN cache # {}
  /\ DOMAIN tagIndex # {}

\* C28: invalidateTag(tag) leaves alone every entry whose latest set was not a
\* setWithTags naming the tag, whatever the key was registered under before.
C28_StaleTagHarmless ==
  [][CacheCall("invalidateTag") =>
       \A k \in DOMAIN cache :
          (\A i \in 1..Len(written[k].tags) :
              written[k].tags[i] # response'.tag)
          => (k \in DOMAIN cache' /\ cache'[k] = cache[k])]_vars

-----------------------------------------------------------------------------
(* Properties of the cached projection route and of the save routes *)

\* C24: whatever requests and updates of the client came before, a reply of
\* GET /projections/client/:id is what createClientProjection computes from the
\* client as persisted when the request is made: that projection with status
\* 200, or 404 when the client does not exist.
C24_CachedIsCurrent ==
  (response # Null /\ response.op = "projection") =>
    IF response.client = Null
    THEN response.status = 404
    ELSE /\ response.status = 200
         /\ response.data = createClientProjection(response.client,
                                                   response.annualRate,
                                                   response.at)

\* C25: when the client does not exist createClientProjection fails with the
\* not-found error, which carries no projection; a save route that called it
\* answers 404 and creates no simulation, and the cached route answers 404 and
\* stores nothing.
C25_NotFoundLeavesNothing ==
  [][/\ (Handles("save") /\ db = Null) =>
          /\ response'.status = 404
          /\ simulations' = simulations
          /\ saved' = saved
     /\ ("get" \notin DOMAIN inflight /\ "get" \in DOMAIN inflight'
                                      /\ db = Null) =>
          inflight'["get"].projection = NotFound
     /\ (Handles("projection") /\ response'.produced
                               /\ response'.client = Null) =>
          /\ response'.status = 404
          /\ cache' = cache]_vars

\* a save was answered with 404 while the cached route, which missed, waits
\* with the not-found error of the same absent client
C25_Witness ==
  /\ response # Null
  /\ response.op = "save"
  /\ response.status = 404
  /\ simulations = <<>>
  /\ "get" \in DOMAIN inflight
  /\ inflight["get"].projection = NotFound
  /\ inflight["get"].key \notin DOMAIN cache

\* C30: in every simulation saved with metadata, results.projectionYears is not
\* negative and is the number of years the saved points cover, counted with or
\* without the first year.
C30_ProjectionYears ==
  \A j \in 1..Len(simulations) :
     "metadata" \in DOMAIN simulations[j].payload =>
        LET points == simulations[j].payload.projectionPoints
            years == simulations[j].payload.metadata.results.projectionYears
        IN /\ years >= 0
           /\ years \in {points[Len(points)].year - points[1].year,
                         points[Len(points)].year - points[1].year + 1}

-----------------------------------------------------------------------------
(* Properties of concurrent deletions *)

\* C26: however DELETE requests for the same simulation interleave, each is
\* answered with 204 or with 404.
C26_DeleteNever500 ==
  (response # Null /\ response.op = "delete") => response.status \in {204, 404}

-----------------------------------------------------------------------------
(* Further properties of the simulation history *)

\* C27: a comparison of 2 to 5 ids that are distinct and all stored is answered
\* with exactly one entry per id; when an id is not stored or is repeated the
\* request is refused with a client error, never answered with a comparison and
\* never with the server error of an exception.
C27_OnePerId ==
  (response # Null /\ response.op = "compare"
                   /\ Len(response.simulationIds) >= 2
                   /\ Len(response.simulationIds) <= 5) =>
    IF Cardinality(Loaded) = Len(response.simulationIds)
    THEN /\ response.status = 200
         /\ Len(Compared) = Len(response.simulationIds)
         /\ \A j \in 1..Len(response.simulationIds) :
               \E k \in 1..Len(Compared) :
                  Compared[k].id = response.simulationIds[j]
    ELSE response.status \in {400, 404}

\* the simulations of c1 stored with at least one of the given tags
Tagged(tagList) ==
  SelectSeq(OwnRows, LAMBDA sim :
    \E i \in 1..Len(tagList) :
      \E k \in 1..Len(TagsOf(MetadataOf(sim.payload))) :
        TagsOf(MetadataOf(sim.payload))[k] = tagList[i])

\* C29: with a tags filter, pagination.total is the number of the client's
\* simulations that carry one of the tags, totalPages is that number over the
\* limit, rounded up, and the page holds min(limit, matching simulations left
\* from the page's first position) entries, all of them matching.
C29_TaggedPagination ==
  (Replied("history") /\ "tags" \in DOMAIN response.query
                      /\ Len(response.query.tags) > 0) =>
    LET query == response.query
        matching == Len(Tagged(query.tags))
        remaining == matching - (query.page - 1) * query.limit
    IN  /\ response.data.pagination.total = matching
        /\ response.data.pagination.totalPages
             = (matching + query.limit - 1) \div query.limit
        /\ Len(Listed) = IF remaining <= 0 THEN 0
                         ELSE IF remaining < query.limit THEN remaining
                         ELSE query.limit
        /\ \A k \in 1..Len(Listed) :
              \E j \in 1..matching : Tagged(query.tags)[j].id = Listed[k].id

====
